---- MODULE Spec2Model ----
(***************************************************************************)
(* Campaign validation pipeline of the react-router / apollo-server        *)
(* template: the Zod schemas of shared/campaign-schema, the GraphQL        *)
(* campaign resolvers with their in-memory store, and the client's         *)
(* submission flow (useCampaignForm, CampaignBuilder.onSubmit), the       *)
(* message store of the toasts (useMessageStore), the event bus            *)
(* (useEventBus) and the characters and internal stores that emit on it.   *)
(*                                                                         *)
(* Representation.                                                         *)
(*  - A string that the code inspects character by character (a campaign   *)
(*    name, a budget typed into the form) is a sequence of one-character   *)
(*    strings.                                                             *)
(*  - A number (budget) is an integer count of hundredths: 10 is 1000.     *)
(*  - A JavaScript Date is [valid, day, ms]: its time value is             *)
(*    day * MsPerDay + ms milliseconds (TLC's integers are 32 bits wide,   *)
(*    30 days of milliseconds are not), or the Invalid Date.               *)
(*  - A date string is [fmt, day, ms]: an ISO-8601 timestamp, a            *)
(*    YYYY-MM-DD date-input value, the empty string or unparseable text.   *)
(***************************************************************************)
EXTENDS Integers, Sequences, FiniteSets, TLC

VARIABLES
    campaigns,      \* server: const campaigns: Campaign[]
    lastCall,       \* server: the last mutation that ran and what it returned
    assignedIds,    \* history: the ids createCampaign has handed out so far
    request,        \* pipeline: the mutation request under test (SpecPipeline)
    formValues,     \* client: the values held by the form controls
    fieldErrors,    \* client: formState.errors, the messages shown per control
    crossFieldErrors, \* client: useState crossFieldErrors
    isSubmitting,   \* client: useCampaignStore isSubmitting
    submitError,    \* client: useCampaignStore submitError (banner), or Null
    net,            \* client/server: the mutation in flight and its answer
    stages,         \* client: the pipeline stages the last submission entered
    crossInput,     \* rule sets: the draft under test (SpecCross, SpecField)
    crossResult,    \* rule sets: what the rule sets under test answered
    messages,       \* message store: useMessageStore messages
    timers,         \* message store: the pending setTimeout callbacks
    clock,          \* message store: Date.now(), in milliseconds
    nextId,         \* message store: how many ids generateId has made, plus one
    msgCall,        \* message store: the last operation that ran on the store
    busListeners,   \* event bus: listeners, the listeners of each event type
    busHistory,     \* event bus: history, the events kept
    busClock,       \* event bus: the logical time of the last emit (Date.now())
    busCalls,       \* event bus: the listener calls made by the last emit
    busCall,        \* event bus: the last emit that was called
    busHandles,     \* event bus: what became of the unsubscribe function of each on
    charactersStore, \* characters store: the state of useCharactersStore
    internalStore,  \* internal store: the state of useInternalStore
    inFlight,       \* stores: the service calls awaited, in the order they began
    requested,      \* stores: how many service calls have begun
    settled         \* stores: the service call that settled last, and how

serverVars == <<campaigns, lastCall, assignedIds>>

clientVars ==
    <<formValues, fieldErrors, crossFieldErrors, isSubmitting, submitError, net, stages>>

crossVars == <<crossInput, crossResult>>

msgVars == <<messages, timers, clock, nextId, msgCall>>

busVars == <<busListeners, busHistory, busClock, busCalls, busCall, busHandles>>

storeVars == <<charactersStore, internalStore, inFlight, requested, settled>>

appVars == <<busVars, storeVars>>

vars == <<serverVars, request, clientVars, crossVars, msgVars, appVars>>

(***************************************************************************)
(* Bounds                                                                  *)
(***************************************************************************)
MaxCampaigns == 2

\* the messages added to the message store in one behaviour of SpecMessages
MaxMessages == 2

(***************************************************************************)
(* Characters and strings                                                  *)
(***************************************************************************)
UpperCase ==
    <<"A", "B", "C", "D", "E", "F", "G", "H", "I", "J", "K", "L", "M",
      "N", "O", "P", "Q", "R", "S", "T", "U", "V", "W", "X", "Y", "Z">>

LowerCase ==
    <<"a", "b", "c", "d", "e", "f", "g", "h", "i", "j", "k", "l", "m",
      "n", "o", "p", "q", "r", "s", "t", "u", "v", "w", "x", "y", "z">>

Digits == {"0", "1", "2", "3", "4", "5", "6", "7", "8", "9"}

Range(s) == {s[i] : i \in DOMAIN s}

\* the characters \s matches and String.prototype.trim strips
IsWhitespace(c) == c \in {" ", "\t", "\n", "\r"}

\* the character class [a-zA-Z0-9\s]
IsNameChar(c) ==
    \/ c \in Range(LowerCase)
    \/ c \in Range(UpperCase)
    \/ c \in Digits
    \/ IsWhitespace(c)

\* /^[a-zA-Z0-9\s]+$/ : one or more characters of the class
MatchesNamePlus(s) == Len(s) >= 1 /\ \A i \in DOMAIN s : IsNameChar(s[i])

\* /^[a-zA-Z0-9\s]*$/ : zero or more characters of the class
MatchesNameStar(s) == \A i \in DOMAIN s : IsNameChar(s[i])

RECURSIVE TrimStart(_)
TrimStart(s) ==
    IF s # <<>> /\ IsWhitespace(Head(s)) THEN TrimStart(Tail(s)) ELSE s

RECURSIVE TrimEnd(_)
TrimEnd(s) ==
    IF s # <<>> /\ IsWhitespace(s[Len(s)])
    THEN TrimEnd(SubSeq(s, 1, Len(s) - 1))
    ELSE s

\* String.prototype.trim
Trim(s) == TrimEnd(TrimStart(s))

toLowerCaseChar(c) ==
    IF \E i \in DOMAIN UpperCase : UpperCase[i] = c
    THEN LowerCase[CHOOSE i \in DOMAIN UpperCase : UpperCase[i] = c]
    ELSE c

\* String.prototype.toLowerCase
toLowerCase(s) == [i \in DOMAIN s |-> toLowerCaseChar(s[i])]

\* String.prototype.includes
Includes(s, w) ==
    \E i \in 1..(Len(s) - Len(w) + 1) : SubSeq(s, i, i + Len(w) - 1) = w

(***************************************************************************)
(* Dates                                                                   *)
(***************************************************************************)
MsPerDay == 1000 * 60 * 60 * 24

InvalidDate == [valid |-> FALSE, day |-> 0, ms |-> 0]

DateValue(d, m) == [valid |-> TRUE, day |-> d, ms |-> m]

IsoString(d, m) == [fmt |-> "ISO", day |-> d, ms |-> m]

DateOnly(d) == [fmt |-> "YYYY-MM-DD", day |-> d, ms |-> 0]

EmptyString == [fmt |-> "empty", day |-> 0, ms |-> 0]

Unparseable == [fmt |-> "text", day |-> 0, ms |-> 0]

\* new Date(string): an ISO timestamp gives its instant, a date-only string
\* UTC midnight of its day, anything else the Invalid Date
NewDate(s) ==
    CASE s.fmt = "ISO" -> DateValue(s.day, s.ms)
      [] s.fmt = "YYYY-MM-DD" -> DateValue(s.day, 0)
      [] OTHER -> InvalidDate

\* isNaN(date.getTime())
IsNaNDate(d) == ~d.valid

\* a > b on two Dates (false when either is invalid)
DateAfter(a, b) ==
    /\ a.valid /\ b.valid
    /\ \/ a.day > b.day
       \/ a.day = b.day /\ a.ms > b.ms

\* a <= b on two Dates (false when either is invalid)
DateNotAfter(a, b) ==
    /\ a.valid /\ b.valid
    /\ \/ a.day < b.day
       \/ a.day = b.day /\ a.ms <= b.ms

\* hi.getTime() - lo.getTime() for hi >= lo, as whole days plus milliseconds
TimeBetween(hi, lo) ==
    IF hi.ms >= lo.ms
    THEN [day |-> hi.day - lo.day, ms |-> hi.ms - lo.ms]
    ELSE [day |-> hi.day - lo.day - 1, ms |-> hi.ms + MsPerDay - lo.ms]

\* Math.abs(a.getTime() - b.getTime()), as whole days plus milliseconds
DiffTime(a, b) == IF DateAfter(a, b) THEN TimeBetween(a, b) ELSE TimeBetween(b, a)

\* Math.ceil(diffTime / (1000 * 60 * 60 * 24))
Ceil(diffTime) == diffTime.day + (IF diffTime.ms > 0 THEN 1 ELSE 0)

\* DiffDays with the quotient rounded down instead of up
DiffDays_Floor(a, b) == DiffTime(a, b).day

\* const diffDays = Math.ceil(Math.abs(end - start) / (1000 * 60 * 60 * 24))
DiffDays(a, b) == Ceil(DiffTime(a, b))

(***************************************************************************)
(* Zod: issues, parse outcomes                                             *)
(***************************************************************************)
Issue(field, msg) == [path |-> <<field>>, message |-> msg]

\* null
Null == "null"

Return(v) == [kind |-> "return", value |-> v]

Throw(e) == [kind |-> "throw", error |-> e]

ZodError(issues) == [name |-> "ZodError", issues |-> issues]

RangeError == [name |-> "RangeError", issues |-> <<>>]

\* schema.parse(data): the value when there is no issue, else a thrown ZodError
Parse(r) == IF r.issues = <<>> THEN Return(r.value) ELSE Throw(ZodError(r.issues))

\* issue.path.join('.')
PathJoin(path) == IF Len(path) = 0 THEN "" ELSE path[1]

MsgNameMin == "Campaign name must be at least 3 characters"

MsgNameMax == "Campaign name must not exceed 15 characters"

MsgNameChars == "Campaign name can only contain letters, numbers, and spaces"

MsgBudgetMin == "Budget must be at least $10"

MsgBudgetMax == "Budget cannot exceed $1000"

MsgInvalidDate == "Invalid date"

MsgOrdering == "End date must be after start date"

MsgDuration == "Campaign duration cannot exceed 30 days"

MsgProhibited == "Campaign name contains prohibited words"

\* a number is counted in hundredths (two decimal digits)
Scale == 10 * 10

NameMinLen == 3

NameMaxLen == 15

BudgetMin == 10

BudgetMax == 1000

MaxDurationDays == 30

(***************************************************************************)
(* shared/campaign-schema: baseCampaignSchema, serverCampaignSchema        *)
(*                                                                         *)
(* A schema applied to a value gives [issues, aborted, value].  The checks *)
(* of a string or number run in the order they were chained, each on the   *)
(* value the previous ones left, and a failing check adds its issue        *)
(* without stopping the later ones; trim() is one of the chained steps.    *)
(* A value of the wrong type (an Invalid Date for z.date()) aborts: the    *)
(* issues of all fields are still collected, but no refinement of the      *)
(* object runs.  Refinements of an object that was not aborted all run, in *)
(* order, also when a field check or an earlier refinement has failed.     *)
(***************************************************************************)
IssueIf(cond, field, msg) == IF cond THEN <<Issue(field, msg)>> ELSE <<>>

\* z.string().min(3).max(15).regex(/^[a-zA-Z0-9\s]+$/).trim()
NameSchema(name) ==
    [issues  |-> IssueIf(Len(name) < NameMinLen, "name", MsgNameMin)
                 \o IssueIf(Len(name) > NameMaxLen, "name", MsgNameMax)
                 \o IssueIf(~MatchesNamePlus(name), "name", MsgNameChars),
     aborted |-> FALSE,
     value   |-> Trim(name)]

\* z.number().min(10).max(1000)
BudgetSchema(budget) ==
    [issues  |-> IssueIf(budget < BudgetMin * Scale, "budget", MsgBudgetMin)
                 \o IssueIf(budget > BudgetMax * Scale, "budget", MsgBudgetMax),
     aborted |-> FALSE,
     value   |-> budget]

\* DateSchema reporting an Invalid Date as an ordinary failed check
DateSchema_NoAbort(field, date) ==
    [issues  |-> IssueIf(IsNaNDate(date), field, MsgInvalidDate),
     aborted |-> FALSE,
     value   |-> date]

\* z.date()
DateSchema(field, date) ==
    [issues  |-> IssueIf(IsNaNDate(date), field, MsgInvalidDate),
     aborted |-> IsNaNDate(date),
     value   |-> date]

\* z.object of the four fields, given what each field's schema made of its value
ZodObject(n, b, s, e) ==
    [issues  |-> n.issues \o b.issues \o s.issues \o e.issues,
     aborted |-> n.aborted \/ b.aborted \/ s.aborted \/ e.aborted,
     value   |-> [name |-> n.value, budget |-> b.value,
                  startDate |-> s.value, endDate |-> e.value]]

\* z.object({ name, budget, startDate, endDate })
CampaignObject(data) ==
    ZodObject(NameSchema(data.name), BudgetSchema(data.budget),
              DateSchema("startDate", data.startDate),
              DateSchema("endDate", data.endDate))

\* schema.refine(check, { message, path }); `passes` is check(r.value), which
\* is not evaluated when the parse was aborted
Refine(r, passes, issue) ==
    IF r.aborted \/ passes
    THEN r
    ELSE [r EXCEPT !.issues = Append(@, issue)]

\* (data) => data.endDate > data.startDate
OrderingOk(data) == DateAfter(data.endDate, data.startDate)

\* DurationOk with the day difference rounded down instead of up
DurationOk_Floor(data) ==
    DiffTime(data.endDate, data.startDate).day <= MaxDurationDays

\* (data) => Math.ceil(Math.abs(end - start) / day) <= 30
DurationOk(data) == DiffDays(data.endDate, data.startDate) <= MaxDurationDays

\* .refine(endDate > startDate).refine(duration <= 30 days) on the object
DateRefinements(object) ==
    Refine(Refine(object, OrderingOk(object.value), Issue("endDate", MsgOrdering)),
           DurationOk(object.value), Issue("endDate", MsgDuration))

baseCampaignSchema(data) == DateRefinements(CampaignObject(data))

invalidWords ==
    << <<"s", "p", "a", "m">>,
       <<"s", "c", "a", "m">>,
       <<"f", "a", "k", "e">>,
       <<"f", "r", "a", "u", "d">>,
       <<"p", "h", "i", "s", "h", "i", "n", "g">>,
       <<"m", "a", "l", "w", "a", "r", "e">>,
       <<"v", "i", "r", "u", "s">>,
       <<"h", "a", "c", "k">>,
       <<"i", "l", "l", "e", "g", "a", "l">>,
       <<"s", "t", "o", "l", "e", "n">>,
       <<"p", "i", "r", "a", "t", "e", "d">>,
       <<"x", "x", "x">>,
       <<"p", "o", "r", "n">>,
       <<"a", "d", "u", "l", "t">>,
       <<"c", "a", "s", "i", "n", "o">>,
       <<"g", "a", "m", "b", "l", "i", "n", "g">>,
       <<"b", "e", "t">>,
       <<"l", "o", "t", "t", "e", "r", "y">>,
       <<"w", "i", "n", "n", "e", "r">>,
       <<"c", "o", "n", "g", "r", "a", "t", "u", "l", "a", "t", "i", "o", "n", "s">>,
       <<"u", "r", "g", "e", "n", "t">>,
       <<"l", "i", "m", "i", "t", "e", "d">>,
       <<"e", "x", "c", "l", "u", "s", "i", "v", "e">>,
       <<"g", "u", "a", "r", "a", "n", "t", "e", "e", "d">>,
       <<"r", "i", "s", "k", "-", "f", "r", "e", "e">>,
       <<"m", "i", "r", "a", "c", "l", "e">>,
       <<"a", "m", "a", "z", "i", "n", "g">>,
       <<"i", "n", "c", "r", "e", "d", "i", "b", "l", "e">>,
       <<"u", "n", "b", "e", "l", "i", "e", "v", "a", "b", "l", "e">> >>

\* words.some(word => text.includes(word))
Some(words, text) == \E i \in DOMAIN words : Includes(text, words[i])

\* NoProhibitedWord comparing the name as typed, without lower-casing it
NoProhibitedWord_CaseSensitive(data) == ~Some(invalidWords, data.name)

\* (data) => !invalidWords.some(word => data.name.toLowerCase().includes(word))
NoProhibitedWord(data) == ~Some(invalidWords, toLowerCase(data.name))

\* the first word of the list that the lower-cased name includes
FirstMatch(name) ==
    CHOOSE i \in DOMAIN invalidWords :
        /\ Includes(toLowerCase(name), invalidWords[i])
        /\ \A j \in 1..(i - 1) : ~Includes(toLowerCase(name), invalidWords[j])

\* WordRefinement with a message that tells which word of the list matched
WordRefinement_NamesWord(base) ==
    Refine(base, NoProhibitedWord(base.value),
           Issue("name", ToString(FirstMatch(base.value.name))))

\* .refine(no prohibited word) on what baseCampaignSchema made of the data
WordRefinement(base) ==
    Refine(base, NoProhibitedWord(base.value), Issue("name", MsgProhibited))

serverCampaignSchema(data) == WordRefinement(baseCampaignSchema(data))

(***************************************************************************)
(* Inputs                                                                  *)
(***************************************************************************)
NameSummerSale == <<"S", "u", "m", "m", "e", "r", " ", "S", "a", "l", "e">>

NamePadded == <<" ", " ", "a", " ", " ">>

NameShort == <<"a", "b">>

NameCasino == <<"B", "i", "g", " ", "C", "a", "s", "i", "n", "o", " ", "W", "i", "n">>

NameRiskFree == <<"r", "i", "s", "k", "-", "f", "r", "e", "e">>

NameSpamOffer == <<"S", "p", "a", "m", " ", "O", "f", "f", "e", "r">>

NameLong ==
    <<"U", "n", "b", "e", "l", "i", "e", "v", "a", "b", "l", "e", " ", "D", "e", "a", "l">>

NameAlphabet == <<"A", "l", "p", "h", "a", "b", "e", "t">>

Names ==
    {NameSummerSale, NamePadded, NameShort, NameCasino, NameRiskFree, NameSpamOffer,
     NameLong, NameAlphabet}

\* 9.99, 10, 1000 and 1000.01
Budgets ==
    {BudgetMin * Scale - 1, BudgetMin * Scale, BudgetMax * Scale, BudgetMax * Scale + 1}

\* text that is no date, day 0, day 30 as a date-only string, and one
\* millisecond after the start of day 30
DateStrings ==
    {Unparseable, IsoString(0, 0), DateOnly(MaxDurationDays), IsoString(MaxDurationDays, 1)}

\* String(n)
String(n) == ToString(n)

\* the ids a caller passes to updateCampaign and deleteCampaign
IdInputs == {String(n) : n \in 1..(MaxCampaigns + 1)}

\* new Date().toISOString() at the time of a call
Times == {IsoString(100, 0)}

AllInputs ==
    [name : Names, budget : Budgets, startDate : DateStrings, endDate : DateStrings]

BaseInput ==
    [name      |-> NameSummerSale,
     budget    |-> BudgetMin * Scale,
     startDate |-> IsoString(0, 0),
     endDate   |-> DateOnly(MaxDurationDays)]

\* the number of fields in which an input differs from a base input
Deviations(in, base) ==
    Cardinality({f \in {"name", "budget", "startDate", "endDate"} : in[f] # base[f]})

\* the inputs that differ from BaseInput in at most one field
ServerInputs == {in \in AllInputs : Deviations(in, BaseInput) <= 1}

(***************************************************************************)
(* Client: campaignFieldSchema, campaignSubmissionSchema, useCampaignForm   *)
(***************************************************************************)
MsgBudgetRequired == "Budget is required"

MsgBudgetNumber == "Budget must be a valid number"

MsgStartRequired == "Start date is required"

MsgEndRequired == "End date is required"

MsgInvalidStart == "Invalid start date"

MsgInvalidEnd == "Invalid end date"

MsgNetwork == "Network error occurred while creating campaign"

MsgSubmitFailed == "An unexpected error occurred. Please try again."

DigitValue(c) == CHOOSE n \in 0..9 : String(n) = c

RECURSIVE DigitPrefix(_)
\* the longest prefix of s made of digits
DigitPrefix(s) ==
    IF s # <<>> /\ Head(s) \in Digits
    THEN <<Head(s)>> \o DigitPrefix(Tail(s))
    ELSE <<>>

RECURSIVE DigitsValue(_)
DigitsValue(ds) ==
    IF ds = <<>>
    THEN 0
    ELSE 10 * DigitsValue(SubSeq(ds, 1, Len(ds) - 1)) + DigitValue(ds[Len(ds)])

\* the first two decimals of a fraction, in hundredths
Hundredths(fd) ==
    (IF Len(fd) >= 1 THEN 10 * DigitValue(fd[1]) ELSE 0)
    + (IF Len(fd) >= 2 THEN DigitValue(fd[2]) ELSE 0)

\* the number whose integer digits and fraction digits were read
NumberOf(intDigits, fracDigits) ==
    IF intDigits = <<>> /\ fracDigits = <<>>
    THEN [nan |-> TRUE, value |-> 0]
    ELSE [nan   |-> FALSE,
          value |-> DigitsValue(intDigits) * Scale + Hundredths(fracDigits)]

\* the digits of the fraction that starts the text, if one does
FractionDigits(rest) ==
    IF rest # <<>> /\ Head(rest) = "." THEN DigitPrefix(Tail(rest)) ELSE <<>>

\* the number read from a text whose integer digits are intDigits
NumberAfter(intDigits, u) ==
    NumberOf(intDigits, FractionDigits(SubSeq(u, Len(intDigits) + 1, Len(u))))

UnsignedNumber(u) == NumberAfter(DigitPrefix(u), u)

Negated(x) == [x EXCEPT !.value = 0 - @]

\* the number read from a text without leading whitespace
SignedNumber(t) ==
    IF t # <<>> /\ Head(t) = "-"
    THEN Negated(UnsignedNumber(Tail(t)))
    ELSE IF t # <<>> /\ Head(t) = "+"
    THEN UnsignedNumber(Tail(t))
    ELSE UnsignedNumber(t)

\* parseFloat(val): skips leading whitespace, reads an optional sign, digits
\* and an optional fraction, ignores whatever follows, and gives NaN when it
\* read no digit.  (Exponents and 'Infinity' are not among the inputs.)
parseFloat(val) == SignedNumber(TrimStart(val))

\* NumGE with the bound itself excluded
NumGE_Strict(x, n) == ~x.nan /\ x.value > n * Scale

\* val >= n and val <= n on a parsed number (false for NaN)
NumGE(x, n) == ~x.nan /\ x.value >= n * Scale

NumLE(x, n) == ~x.nan /\ x.value <= n * Scale

\* val.length on a date string
IsEmptyString(s) == s.fmt = "empty"

\* .refine(!isNaN(num)).refine(num >= 10).refine(num <= 1000) on the number
\* parseFloat made of the text
BudgetRefinements(num) ==
    IssueIf(num.nan, "budget", MsgBudgetNumber)
    \o IssueIf(~NumGE(num, BudgetMin), "budget", MsgBudgetMin)
    \o IssueIf(~NumLE(num, BudgetMax), "budget", MsgBudgetMax)

\* campaignFieldSchema: the issues the resolver reports for the raw form
\* values (no transformation, no trim)
campaignFieldSchema(data) ==
    IssueIf(Len(data.name) < NameMinLen, "name", MsgNameMin)
    \o IssueIf(Len(data.name) > NameMaxLen, "name", MsgNameMax)
    \o IssueIf(~MatchesNameStar(data.name), "name", MsgNameChars)
    \o IssueIf(Len(data.budget) < 1, "budget", MsgBudgetRequired)
    \o BudgetRefinements(parseFloat(data.budget))
    \o IssueIf(IsEmptyString(data.startDate), "startDate", MsgStartRequired)
    \o IssueIf(IsNaNDate(NewDate(data.startDate)), "startDate", MsgInvalidStart)
    \o IssueIf(IsEmptyString(data.endDate), "endDate", MsgEndRequired)
    \o IssueIf(IsNaNDate(NewDate(data.endDate)), "endDate", MsgInvalidEnd)

\* z.string().min(1).transform(parseFloat).refine(!isNaN).refine(>= 10).refine(<= 1000)
\* (an empty string fails min(1) and is not transformed)
TransformedBudget(num) ==
    [issues |-> BudgetRefinements(num), aborted |-> FALSE, value |-> num.value]

SubmissionBudget(val) ==
    IF Len(val) < 1
    THEN [issues |-> <<Issue("budget", MsgBudgetRequired)>>, aborted |-> TRUE, value |-> 0]
    ELSE TransformedBudget(parseFloat(val))

\* z.string().min(1).transform(val => new Date(val)).refine(!isNaN(date.getTime()))
\* (an empty string fails min(1) and is not transformed)
SubmissionDate(field, val, requiredMsg, invalidMsg) ==
    IF IsEmptyString(val)
    THEN [issues |-> <<Issue(field, requiredMsg)>>, aborted |-> TRUE, value |-> InvalidDate]
    ELSE [issues  |-> IssueIf(IsNaNDate(NewDate(val)), field, invalidMsg),
          aborted |-> FALSE,
          value   |-> NewDate(val)]

\* campaignSubmissionSchema: [issues, aborted, value]
campaignSubmissionSchema(data) ==
    ZodObject(NameSchema(data.name), SubmissionBudget(data.budget),
              SubmissionDate("startDate", data.startDate, MsgStartRequired, MsgInvalidStart),
              SubmissionDate("endDate", data.endDate, MsgEndRequired, MsgInvalidEnd))

\* an empty Record<string, string>
NoErrors == [f \in {} |-> ""]

\* error.issues.forEach(issue => errors[issue.path[0]] = issue.message)
LastMessagePerField(issues) ==
    [f \in {PathJoin(issues[i].path) : i \in DOMAIN issues} |->
        LET last == CHOOSE i \in DOMAIN issues :
                        /\ PathJoin(issues[i].path) = f
                        /\ \A j \in DOMAIN issues :
                              PathJoin(issues[j].path) = f => j <= i
        IN  issues[last].message]

\* validateCrossFields(data): the Record of field errors it returns
\* errors[field] = message
SetError(errors, field, message) ==
    [f \in DOMAIN errors \cup {field} |-> IF f = field THEN message ELSE errors[f]]

\* if (transformedData.endDate <= transformedData.startDate) errors.endDate = ...
OrderingCheck(errors, transformedData) ==
    IF DateNotAfter(transformedData.endDate, transformedData.startDate)
    THEN SetError(errors, "endDate", MsgOrdering)
    ELSE errors

\* DurationCheck leaving an error that endDate already has in place
DurationCheck_KeepFirst(errors, diffDays) ==
    IF diffDays > MaxDurationDays /\ "endDate" \notin DOMAIN errors
    THEN SetError(errors, "endDate", MsgDuration)
    ELSE errors

\* if (diffDays > 30) errors.endDate = ...
DurationCheck(errors, diffDays) ==
    IF diffDays > MaxDurationDays
    THEN SetError(errors, "endDate", MsgDuration)
    ELSE errors

\* the try block after the parse: the ordering check, then the duration check
CrossChecks(transformedData) ==
    DurationCheck(OrderingCheck(NoErrors, transformedData),
                  DiffDays(transformedData.endDate, transformedData.startDate))

\* the errors of the try block, or of the catch block when the parse threw
CrossErrors(parsed) ==
    IF parsed.kind = "throw"
    THEN LastMessagePerField(parsed.error.issues)
    ELSE CrossChecks(parsed.value)

validateCrossFields(data) == CrossErrors(Parse(campaignSubmissionSchema(data)))

\* validateBeforeSubmit(data): Object.keys(crossErrors).length === 0
validateBeforeSubmit_AlwaysTrue(data) == TRUE

validateBeforeSubmit(data) == DOMAIN validateCrossFields(data) = {}

\* transformFormData(data): campaignSubmissionSchema.parse(data)
transformFormData(data) == Parse(campaignSubmissionSchema(data))

\* Date.prototype.toISOString: throws a RangeError on the Invalid Date
toISOString(d) ==
    IF d.valid THEN Return(IsoString(d.day, d.ms)) ELSE Throw(RangeError)

\* the variables CampaignService.createCampaign sends with the mutation
MutationInput(campaignData) ==
    [name      |-> campaignData.name,
     budget    |-> campaignData.budget,
     startDate |-> toISOString(campaignData.startDate).value,
     endDate   |-> toISOString(campaignData.endDate).value]

NameText == <<"a", "b", "c">>

BudgetBelow == <<"9", ".", "9", "9">>

BudgetTen == <<"1", "0">>

ClientNames == {NameSummerSale, NameShort, NameCasino, NamePadded}

\* the empty control, text, 9.99 and 10
BudgetStrings == {<<>>, NameText, BudgetBelow, BudgetTen}

\* the values of a date control: empty, or a day
ClientDateStrings ==
    {EmptyString, DateOnly(0), DateOnly(MaxDurationDays), DateOnly(2 * MaxDurationDays + 1)}

AllDrafts ==
    [name : ClientNames, budget : BudgetStrings,
     startDate : ClientDateStrings, endDate : ClientDateStrings]

BaseDraft ==
    [name      |-> NameSummerSale,
     budget    |-> BudgetTen,
     startDate |-> DateOnly(0),
     endDate   |-> DateOnly(MaxDurationDays)]

\* the form values that differ from BaseDraft in at most one field
Drafts == {d \in AllDrafts : Deviations(d, BaseDraft) <= 1}

\* the client functions, tabulated over the drafts
fieldIssuesOf == [d \in Drafts |-> campaignFieldSchema(d)] @@ <<>>

crossErrorsOf == [d \in Drafts |-> validateCrossFields(d)] @@ <<>>

passesBeforeSubmit == [d \in Drafts |-> validateBeforeSubmit(d)] @@ <<>>

transformedOf == [d \in Drafts |-> transformFormData(d)] @@ <<>>

\* the mutation inputs the client sends for its drafts
SentInputs ==
    {MutationInput(transformedOf[d].value) :
        d \in {x \in Drafts : fieldIssuesOf[x] = <<>> /\ transformedOf[x].kind = "return"}}

(***************************************************************************)
(* server/resolvers: the campaign mutations                                *)
(***************************************************************************)
\* campaigns.findIndex(campaign => campaign.id === id); 0 stands for -1
findIndex(store, id) ==
    IF \E i \in DOMAIN store : store[i].id = id
    THEN CHOOSE i \in DOMAIN store :
            /\ store[i].id = id
            /\ \A j \in 1..(i - 1) : store[j].id # id
    ELSE 0

\* error.issues.map(issue => ({ field: issue.path.join('.'), message }))
validationErrors(error) ==
    [i \in DOMAIN error.issues |->
        [field   |-> PathJoin(error.issues[i].path),
         message |-> error.issues[i].message]]

MsgUnexpectedCreate == "An unexpected error occurred. Please try again."

MsgUnexpectedUpdate == "An unexpected error occurred"

MsgNotFound == "Campaign not found"

\* CatchError reading a property the error does not have: the map throws
CatchError_Throws(error, generalMessage) ==
    IF error.name = "ZodError"
    THEN Throw([name |-> "TypeError", issues |-> <<>>])
    ELSE Return([success |-> FALSE,
                 errors  |-> <<[field |-> "general", message |-> generalMessage]>>])

\* the catch block of createCampaign / updateCampaign
CatchError(error, generalMessage) ==
    IF error.name = "ZodError"
    THEN Return([success |-> FALSE, errors |-> validationErrors(error)])
    ELSE Return([success |-> FALSE,
                 errors  |-> <<[field |-> "general", message |-> generalMessage]>>])

\* const validationData = { name, budget, startDate: new Date(..), endDate: new Date(..) }
validationData(input) ==
    [name      |-> input.name,
     budget    |-> input.budget,
     startDate |-> NewDate(input.startDate),
     endDate   |-> NewDate(input.endDate)]

\* serverCampaignSchema.parse(validationData), tabulated over the inputs
serverParse ==
    [in \in AllInputs \cup SentInputs |->
        Parse(serverCampaignSchema(validationData(in)))] @@ <<>>

\* a try block that ends with the store as it was: [store, outcome]
Unchanged(store, outcome) == [store |-> store, outcome |-> outcome]

\* return { success: true, campaign } with the store the block leaves
Succeeded(store, campaign) ==
    [store |-> store, outcome |-> Return([success |-> TRUE, campaign |-> campaign])]

\* const newCampaign = { id: String(campaigns.length + 1), ..., createdAt }
NewCampaign(store, name, budget, startDate, endDate, now) ==
    [id        |-> String(Len(store) + 1),
     name      |-> name,
     budget    |-> budget,
     startDate |-> startDate,
     endDate   |-> endDate,
     status    |-> "draft",
     createdAt |-> now]

\* the same fields of the input stored in both records
SameInput(a, b) ==
    /\ a.name = b.name
    /\ a.budget = b.budget
    /\ a.startDate = b.startDate
    /\ a.endDate = b.endDate

\* Push answering with the stored record when one holds the same input
Push_Deduplicated(store, newCampaign) ==
    IF \E i \in DOMAIN store : SameInput(store[i], newCampaign)
    THEN Succeeded(store, store[CHOOSE i \in DOMAIN store :
                                    SameInput(store[i], newCampaign)])
    ELSE Succeeded(Append(store, newCampaign), newCampaign)

\* campaigns.push(newCampaign); return { success: true, campaign: newCampaign }
Push(store, newCampaign) == Succeeded(Append(store, newCampaign), newCampaign)

\* the outcome of a pushed record whose input is validated only afterwards
PushedFirst(pushed, parsed) ==
    IF parsed.kind = "throw" THEN [pushed EXCEPT !.outcome = parsed] ELSE pushed

\* CreateTry pushing the record before it validates the input
CreateTry_PushFirst(store, input, now) ==
    PushedFirst(Push(store, NewCampaign(store, input.name, input.budget,
                                        input.startDate, input.endDate, now)),
                serverParse[input])

\* the try block of createCampaign once both dates are to be formatted
CreateFormatted(store, validatedData, startIso, endIso, now) ==
    IF startIso.kind = "throw"
    THEN Unchanged(store, startIso)
    ELSE IF endIso.kind = "throw"
    THEN Unchanged(store, endIso)
    ELSE Push(store, NewCampaign(store, validatedData.name, validatedData.budget,
                                 startIso.value, endIso.value, now))

\* the try block of createCampaign after serverCampaignSchema.parse
CreateParsed(store, parsed, now) ==
    IF parsed.kind = "throw"
    THEN Unchanged(store, parsed)
    ELSE CreateFormatted(store, parsed.value,
                         toISOString(parsed.value.startDate),
                         toISOString(parsed.value.endDate), now)

\* the try block of createCampaign: [store, outcome]
CreateTry(store, input, now) == CreateParsed(store, serverParse[input], now)

\* try { ... } catch (error) { ... }: a throw of the try block is caught
TryCatch(t, generalMessage) ==
    IF t.outcome.kind = "throw"
    THEN [t EXCEPT !.outcome = CatchError(t.outcome.error, generalMessage)]
    ELSE t

\* createCampaign(_, { input }): the store it leaves and how the call ends
createCampaignCall(store, input, now) ==
    TryCatch(CreateTry(store, input, now), MsgUnexpectedCreate)

\* campaigns.splice(campaignIndex, 1)
Splice(store, i) == SubSeq(store, 1, i - 1) \o SubSeq(store, i + 1, Len(store))

\* Replace taking the old record out and pushing the updated one at the end
Replace_AtEnd(store, campaignIndex, updatedCampaign) ==
    Succeeded(Append(Splice(store, campaignIndex), updatedCampaign), updatedCampaign)

\* campaigns[campaignIndex] = updatedCampaign; return { success: true, campaign }
Replace(store, campaignIndex, updatedCampaign) ==
    Succeeded([store EXCEPT ![campaignIndex] = updatedCampaign], updatedCampaign)

\* const updatedCampaign = { ...campaigns[campaignIndex], name, budget, startDate, endDate }
UpdatedCampaign(campaign, validatedData, startIso, endIso) ==
    [campaign EXCEPT
        !.name      = validatedData.name,
        !.budget    = validatedData.budget,
        !.startDate = startIso.value,
        !.endDate   = endIso.value]

\* the try block of updateCampaign once both dates are to be formatted
UpdateFormatted(store, campaignIndex, validatedData, startIso, endIso) ==
    IF startIso.kind = "throw"
    THEN Unchanged(store, startIso)
    ELSE IF endIso.kind = "throw"
    THEN Unchanged(store, endIso)
    ELSE Replace(store, campaignIndex,
                 UpdatedCampaign(store[campaignIndex], validatedData, startIso, endIso))

\* the try block of updateCampaign after serverCampaignSchema.parse
UpdateParsed(store, campaignIndex, parsed) ==
    IF parsed.kind = "throw"
    THEN Unchanged(store, parsed)
    ELSE UpdateFormatted(store, campaignIndex, parsed.value,
                         toISOString(parsed.value.startDate),
                         toISOString(parsed.value.endDate))

\* UpdateFound parsing the input before it looks at the index
UpdateFound_ValidatesFirst(store, campaignIndex, input) ==
    IF campaignIndex # 0
    THEN UpdateParsed(store, campaignIndex, serverParse[input])
    ELSE IF serverParse[input].kind = "throw"
    THEN Unchanged(store, serverParse[input])
    ELSE Unchanged(store,
                   Return([success |-> FALSE,
                           errors  |-> <<[field |-> "id", message |-> MsgNotFound]>>]))

\* the try block of updateCampaign after campaigns.findIndex
UpdateFound(store, campaignIndex, input) ==
    IF campaignIndex = 0
    THEN Unchanged(store,
                   Return([success |-> FALSE,
                           errors  |-> <<[field |-> "id", message |-> MsgNotFound]>>]))
    ELSE UpdateParsed(store, campaignIndex, serverParse[input])

\* the try block of updateCampaign: [store, outcome]
UpdateTry(store, id, input) == UpdateFound(store, findIndex(store, id), input)

\* updateCampaign(_, { id, input })
updateCampaignCall(store, id, input) ==
    TryCatch(UpdateTry(store, id, input), MsgUnexpectedUpdate)

RECURSIVE WithoutId(_, _)
\* the records of the store whose id is not `id`
WithoutId(store, id) ==
    IF store = <<>>
    THEN <<>>
    ELSE (IF Head(store).id = id THEN <<>> ELSE <<Head(store)>>)
         \o WithoutId(Tail(store), id)

\* DeleteFound taking out every record that has the id of the one found
DeleteFound_AllMatching(store, campaignIndex) ==
    IF campaignIndex = 0
    THEN Unchanged(store, Return(FALSE))
    ELSE [store   |-> WithoutId(store, store[campaignIndex].id),
          outcome |-> Return(TRUE)]

\* deleteCampaign(_, { id })
DeleteFound(store, campaignIndex) ==
    IF campaignIndex = 0
    THEN Unchanged(store, Return(FALSE))
    ELSE [store |-> Splice(store, campaignIndex), outcome |-> Return(TRUE)]

deleteCampaignCall(store, id) == DeleteFound(store, findIndex(store, id))

(***************************************************************************)
(* shared/stores/message-store: useMessageStore                            *)
(*                                                                         *)
(* A message is [id, type, duration, createdAt]; title, description and    *)
(* dismissible do not enter any decision of the store.  generateId builds  *)
(* an id from Date.now() and nine random base-36 digits: the ids are taken *)
(* as distinct, the n-th id being n.  A pending setTimeout callback is     *)
(* [id, due]: it runs no earlier than `due` and calls removeMessage(id).   *)
(***************************************************************************)
DefaultDuration == 5000

\* { duration: 4000 } of the success toast of onSubmit
SuccessDuration == 4000

\* options = {}
NoOptions == [k \in {} |-> 0]

\* messageData.duration ?? 5000
DurationOf(messageData) ==
    IF "duration" \in DOMAIN messageData THEN messageData.duration ELSE DefaultDuration

\* const message = { ...messageData, id, createdAt: Date.now(), duration }
NewMessage(messageData, id, now) ==
    [id        |-> id,
     type      |-> messageData.type,
     duration  |-> DurationOf(messageData),
     createdAt |-> now]

\* Scheduled setting the timer whatever the duration is
Scheduled_Always(message, pending) ==
    pending \cup {[id |-> message.id, due |-> message.createdAt + message.duration]}

\* if (message.duration && message.duration > 0) setTimeout(..., message.duration)
Scheduled(message, pending) ==
    IF message.duration # 0 /\ message.duration > 0
    THEN pending \cup {[id |-> message.id, due |-> message.createdAt + message.duration]}
    ELSE pending

\* set({ messages: [...state.messages, message] }) and the timer of the message
Added(messageData, message) ==
    /\ messages' = Append(messages, message)
    /\ timers' = Scheduled(message, timers)
    /\ nextId' = nextId + 1
    /\ msgCall' = [op |-> "addMessage", id |-> message.id, data |-> messageData]
    /\ UNCHANGED clock

addMessage(messageData) == Added(messageData, NewMessage(messageData, nextId, clock))

\* { type: 'success', title, description, ...options }
showSuccess(options) == addMessage(options @@ [type |-> "success"])

\* { type: 'error', title, description, duration: 0, ...options }
showError(options) == addMessage(options @@ [type |-> "error", duration |-> 0])

RECURSIVE Filter(_, _)
\* state.messages.filter((message) => message.id !== id)
Filter(stored, id) ==
    IF stored = <<>>
    THEN <<>>
    ELSE (IF Head(stored).id # id THEN <<Head(stored)>> ELSE <<>>)
         \o Filter(Tail(stored), id)

removeMessage(id) == messages' = Filter(messages, id)

clearMessages == messages' = <<>>

\* the store before the first message
MessagesInit ==
    /\ messages = <<>>
    /\ timers = {}
    /\ clock = 0
    /\ nextId = 1
    /\ msgCall = [op |-> "none", id |-> 0]

(***************************************************************************)
(* store/event-bus: useEventBus                                            *)
(*                                                                         *)
(* listeners is a Map from an event type to the Set of its listeners: a    *)
(* Set keeps insertion order and holds a listener once, so it is a         *)
(* sequence without repetition, and off deletes the key of a Set it        *)
(* empties, so a type without a key is a type with the empty sequence.     *)
(* An event is [type, payload, timestamp]; Date.now() is taken as the      *)
(* logical time of the emit, one more at every emit.  A listener is a      *)
(* callback of the caller: what the bus sees of it is whether it returns   *)
(* or throws, and it does not call the bus back.  The unsubscribe function *)
(* returned by on(type, listener) is () => off(type, listener).            *)
(* busHandles remembers, for a type and a listener, the last thing its     *)
(* caller did with it: "none", "registered" by on, "ran" once the          *)
(* unsubscribe function has run, "removed" by off or clear.                *)
(***************************************************************************)
\* EventType
EventTypes == {"CHARACTER_SELECTED", "DATA_UPDATED", "ERROR_OCCURRED", "CACHE_CLEARED"}

\* the events of the history that emit keeps next to the new one
HistoryKept == 99

\* the listeners handed to the bus, and the one that throws when it is called
Listeners == {"recording", "throwing"}

Throws(listener) == listener = "throwing"

\* listeners: new Map()
NoListeners == [type \in EventTypes |-> <<>>]

\* listeners.has(listener) of the Set registered for a type
Has(registered, listener) == \E i \in 1..Len(registered) : registered[i] = listener

\* { type, payload, timestamp: Date.now() }
NewEvent(type, payload, now) == [type |-> type, payload |-> payload, timestamp |-> now]

\* history.slice(-n)
Slice(history, n) ==
    SubSeq(history, IF Len(history) > n THEN Len(history) - n + 1 ELSE 1, Len(history))

\* Kept cutting the history one event later
Kept_OneMore(history, event) == Slice(history, HistoryKept + 1) \o <<event>>

\* [...state.history.slice(-99), event]
Kept(history, event) == Slice(history, HistoryKept) \o <<event>>

\* the call of one listener: try { listener(event) } catch (error) { console.error(...) }
Called(listener, event) ==
    [listener |-> listener, event |-> event, threw |-> Throws(listener)]

\* how many listeners are called when an exception ends the loop
UntilThrow(registered) ==
    IF \E i \in 1..Len(registered) : Throws(registered[i])
    THEN CHOOSE i \in 1..Len(registered) :
            /\ Throws(registered[i])
            /\ \A j \in 1..(i - 1) : ~Throws(registered[j])
    ELSE Len(registered)

\* Delivered without the try around the call of the listener
Delivered_UntilThrow(registered, event) ==
    [i \in 1..UntilThrow(registered) |-> Called(registered[i], event)]

\* listeners.forEach(listener => { try { listener(event) } catch ... })
Delivered(registered, event) ==
    [i \in 1..Len(registered) |-> Called(registered[i], event)]

Emitted(type, payload, event) ==
    /\ busHistory' = Kept(busHistory, event)
    /\ busCalls' = Delivered(busListeners[type], event)
    /\ busClock' = event.timestamp
    /\ busCall' = [op |-> "emit", type |-> type, payload |-> payload]
    /\ UNCHANGED <<busListeners, busHandles>>

emit(type, payload) == Emitted(type, payload, NewEvent(type, payload, busClock + 1))

\* listeners.get(type).add(listener)
Add(registered, listener) ==
    IF Has(registered, listener) THEN registered ELSE Append(registered, listener)

\* on: the listener joins the Set of the type, a new unsubscribe function is returned
on(type, listener) ==
    /\ busListeners' = [busListeners EXCEPT ![type] = Add(@, listener)]
    /\ busHandles' = [busHandles EXCEPT ![<<type, listener>>] = "registered"]
    /\ UNCHANGED <<busHistory, busClock, busCalls, busCall>>

RECURSIVE Without(_, _)
\* typeListeners.delete(listener)
Without(registered, listener) ==
    IF registered = <<>>
    THEN <<>>
    ELSE (IF Head(registered) # listener THEN <<Head(registered)>> ELSE <<>>)
         \o Without(Tail(registered), listener)

\* off: the listener leaves the Set of the type
Removed(type, listener) ==
    busListeners' = [busListeners EXCEPT ![type] = Without(@, listener)]

off(type, listener) ==
    /\ Removed(type, listener)
    /\ busHandles' = [busHandles EXCEPT ![<<type, listener>>] =
                                          IF @ = "registered" THEN "removed" ELSE @]
    /\ UNCHANGED <<busHistory, busClock, busCalls, busCall>>

\* the function returned by on: () => get().off(type, listener)
unsubscribe(type, listener) ==
    /\ Removed(type, listener)
    /\ busHandles' = [busHandles EXCEPT ![<<type, listener>>] = "ran"]
    /\ UNCHANGED <<busHistory, busClock, busCalls, busCall>>

\* clear: set({ listeners: new Map(), history: [] })
clear ==
    /\ busListeners' = NoListeners
    /\ busHistory' = <<>>
    /\ busHandles' = [pair \in DOMAIN busHandles |->
                         IF busHandles[pair] = "registered" THEN "removed" ELSE busHandles[pair]]
    /\ UNCHANGED <<busClock, busCalls, busCall>>

\* getHistory(type): history.filter(event => event.type === type)
getHistory(type) ==
    LET OfType(event) == event.type = type
    IN  SelectSeq(busHistory, OfType)

\* getHistory(): the whole history
getHistoryAll == busHistory

\* the bus before the first call
BusInit ==
    /\ busListeners = NoListeners
    /\ busHistory = <<>>
    /\ busClock = 0
    /\ busCalls = <<>>
    /\ busCall = [op |-> "none"]
    /\ busHandles = [pair \in EventTypes \X Listeners |-> "none"]

(***************************************************************************)
(* store/characters-store and store/internal-store                         *)
(*                                                                         *)
(* Each action of a store is an async function: it runs up to its await    *)
(* when it is called (its beginning), and from the await to its end when   *)
(* the promise of the ApolloService settles.  Calls may begin while others *)
(* are awaited.  A service call settles with Return(data) or with          *)
(* Throw(failure); a failure is an Error with a message, or another value  *)
(* the promise was rejected with.  set(partial) merges into the state.     *)
(***************************************************************************)
\* info.next and info.prev of a page that has none (null)
NoPage == 0

CharactersInitial ==
    [isLoading         |-> FALSE,
     error             |-> Null,
     characters        |-> [items |-> <<>>,
                            pagination |-> [currentPage |-> 1, totalPages |-> 1,
                                            hasNext |-> FALSE, hasPrev |-> FALSE]],
     selectedCharacter |-> Null]

InternalInitial ==
    [isLoading     |-> FALSE,
     error         |-> Null,
     health        |-> Null,
     internalData  |-> <<>>,
     healthLoading |-> FALSE,
     dataLoading   |-> FALSE,
     createLoading |-> FALSE]

\* error instanceof Error ? error.message : fallback
ErrorMessage(error, fallback) == IF error.isError THEN error.message ELSE fallback

\* the awaited call joins the calls in flight
Began(kind, arg) ==
    /\ inFlight' = Append(inFlight, [kind |-> kind, arg |-> arg])
    /\ requested' = requested + 1
    /\ UNCHANGED settled

\* the i-th call in flight settles with the outcome
Settled(i, outcome) ==
    /\ inFlight' = SubSeq(inFlight, 1, i - 1) \o SubSeq(inFlight, i + 1, Len(inFlight))
    /\ settled' = [kind |-> inFlight[i].kind, arg |-> inFlight[i].arg, outcome |-> outcome]
    /\ UNCHANGED requested

\* fetchCharacters(page), up to the await
fetchCharactersBegin(page) ==
    /\ charactersStore' = [isLoading |-> TRUE, error |-> Null] @@ charactersStore
    /\ Began("fetchCharacters", page)
    /\ UNCHANGED <<internalStore, busVars>>

\* the pagination of a fetched page
Pagination(page, info) ==
    [currentPage |-> page, totalPages |-> info.pages,
     hasNext |-> info.next # NoPage, hasPrev |-> info.prev # NoPage]

\* fetchCharacters(page) after the await: the try block
fetchCharactersResolved(page, data) ==
    /\ charactersStore' =
           [isLoading  |-> FALSE,
            characters |-> [items |-> data.characters.results,
                            pagination |-> Pagination(page, data.characters.info)]]
           @@ charactersStore
    /\ emit("DATA_UPDATED", [type |-> "characters", count |-> Len(data.characters.results)])

\* the catch block of an action of the characters store
CharactersFailed(source, errorMessage) ==
    /\ charactersStore' = [isLoading |-> FALSE, error |-> errorMessage] @@ charactersStore
    /\ emit("ERROR_OCCURRED", [source |-> source, error |-> errorMessage])

fetchCharactersEnd(page, outcome) ==
    /\ IF outcome.kind = "return"
       THEN fetchCharactersResolved(page, outcome.value)
       ELSE CharactersFailed("characters",
                             ErrorMessage(outcome.error, "Failed to fetch characters"))
    /\ UNCHANGED internalStore

\* fetchCharacter(id), up to the await
fetchCharacterBegin(id) ==
    /\ charactersStore' = [isLoading |-> TRUE, error |-> Null] @@ charactersStore
    /\ Began("fetchCharacter", id)
    /\ UNCHANGED <<internalStore, busVars>>

\* fetchCharacter(id) after the await
fetchCharacterEnd(id, outcome) ==
    /\ IF outcome.kind = "return"
       THEN /\ charactersStore' =
                   [isLoading |-> FALSE, selectedCharacter |-> outcome.value]
                   @@ charactersStore
            /\ emit("CHARACTER_SELECTED", outcome.value)
       ELSE CharactersFailed("character",
                             ErrorMessage(outcome.error, "Failed to fetch character"))
    /\ UNCHANGED internalStore

\* the catch block of an action of the internal store
InternalFailed(flag, source, errorMessage) ==
    /\ internalStore' = (flag :> FALSE) @@ [error |-> errorMessage] @@ internalStore
    /\ emit("ERROR_OCCURRED", [source |-> source, error |-> errorMessage])

\* an action of the internal store, up to the await
InternalBegin(flag, kind, arg) ==
    /\ internalStore' = (flag :> TRUE) @@ [error |-> Null] @@ internalStore
    /\ Began(kind, arg)
    /\ UNCHANGED <<charactersStore, busVars>>

fetchHealthBegin == InternalBegin("healthLoading", "fetchHealth", Null)

\* fetchHealth after the await
fetchHealthEnd(outcome) ==
    /\ IF outcome.kind = "return"
       THEN /\ internalStore' =
                   [healthLoading |-> FALSE, health |-> outcome.value] @@ internalStore
            /\ emit("DATA_UPDATED", [type |-> "health", status |-> outcome.value.status])
       ELSE InternalFailed("healthLoading", "health",
                           ErrorMessage(outcome.error, "Failed to fetch health status"))
    /\ UNCHANGED charactersStore

fetchInternalDataBegin == InternalBegin("dataLoading", "fetchInternalData", Null)

\* fetchInternalData after the await
fetchInternalDataEnd(outcome) ==
    /\ IF outcome.kind = "return"
       THEN /\ internalStore' =
                   [dataLoading |-> FALSE, internalData |-> outcome.value] @@ internalStore
            /\ emit("DATA_UPDATED", [type |-> "internal-data", count |-> Len(outcome.value)])
       ELSE InternalFailed("dataLoading", "internal-data",
                           ErrorMessage(outcome.error, "Failed to fetch internal data"))
    /\ UNCHANGED charactersStore

createInternalDataBegin(input) == InternalBegin("createLoading", "createInternalData", input)

\* createInternalData(input) after the await
createInternalDataEnd(outcome) ==
    /\ IF outcome.kind = "return"
       THEN /\ internalStore' =
                   [createLoading |-> FALSE,
                    internalData  |-> Append(internalStore.internalData, outcome.value)]
                   @@ internalStore
            /\ emit("DATA_UPDATED", [type |-> "internal-data-created", item |-> outcome.value])
       ELSE InternalFailed("createLoading", "create-internal-data",
                           ErrorMessage(outcome.error, "Failed to create internal data"))
    /\ UNCHANGED charactersStore

\* the stores before the first call
StoresInit ==
    /\ charactersStore = CharactersInitial
    /\ internalStore = InternalInitial
    /\ inFlight = <<>>
    /\ requested = 0
    /\ settled = [kind |-> "none"]

\* the bus and the stores as the application creates them
AppInit == BusInit /\ StoresInit

(***************************************************************************)
(* The server as a state machine                                           *)
(***************************************************************************)
NoCall == [op |-> "none"]

NoRequest == [op |-> "none"]

IsSuccess(outcome) == outcome.kind = "return" /\ outcome.value.success

\* the resolver `op` has run: the module's array is what the call left, and
\* the call's outcome goes to the caller
Resolved(op, call) ==
    /\ campaigns' = call.store
    /\ lastCall' = [op |-> op, outcome |-> call.outcome]

\* a createCampaign call has run; the ids it handed out are recorded
Created(call) ==
    /\ Len(call.store) <= MaxCampaigns
    /\ Resolved("createCampaign", call)
    /\ assignedIds' = IF IsSuccess(call.outcome)
                      THEN assignedIds \cup {call.outcome.value.campaign.id}
                      ELSE assignedIds

\* Mutation.createCampaign
createCampaign(input, now) == Created(createCampaignCall(campaigns, input, now))

\* Mutation.updateCampaign
updateCampaign(id, input) ==
    /\ Resolved("updateCampaign", updateCampaignCall(campaigns, id, input))
    /\ UNCHANGED assignedIds

\* Mutation.deleteCampaign
Deleted(id, call) ==
    /\ campaigns' = call.store
    /\ lastCall' = [op |-> "deleteCampaign", id |-> id, outcome |-> call.outcome]
    /\ UNCHANGED assignedIds

\* Mutation.deleteCampaign; the call is remembered with its id
deleteCampaign(id) == Deleted(id, deleteCampaignCall(campaigns, id))

EmptyForm == [name |-> <<>>, budget |-> <<>>, startDate |-> EmptyString, endDate |-> EmptyString]

NoMessage == [kind |-> "none"]

\* the client before the first submission
ClientInit ==
    /\ formValues = EmptyForm
    /\ fieldErrors = [f \in {} |-> <<>>]
    /\ crossFieldErrors = [f \in {} |-> ""]
    /\ isSubmitting = FALSE
    /\ submitError = Null
    /\ net = NoMessage
    /\ stages = <<>>

\* no draft is under test
CrossIdle ==
    /\ crossInput = EmptyForm
    /\ crossResult = [applied |-> FALSE]

Init ==
    /\ campaigns = <<>>
    /\ lastCall = NoCall
    /\ assignedIds = {}
    /\ request = NoRequest
    /\ ClientInit
    /\ CrossIdle
    /\ MessagesInit
    /\ AppInit

Create == \E input \in ServerInputs, now \in Times : createCampaign(input, now)

Update == \E id \in IdInputs, input \in ServerInputs : updateCampaign(id, input)

Delete == \E id \in IdInputs : deleteCampaign(id)

Next ==
    \/ Create /\ UNCHANGED <<request, clientVars, crossVars, msgVars, appVars>>
    \/ Update /\ UNCHANGED <<request, clientVars, crossVars, msgVars, appVars>>
    \/ Delete /\ UNCHANGED <<request, clientVars, crossVars, msgVars, appVars>>

Spec == Init /\ [][Next]_vars

(***************************************************************************)
(* One request against the server, with the request kept in view           *)
(***************************************************************************)
\* the number an id was made from
IdNum(id) == CHOOSE n \in 0..(MaxCampaigns + 1) : String(n) = id

\* the store after createCampaign(BaseInput)
StoreOfOne(now) == createCampaignCall(<<>>, BaseInput, now).store

\* the store after two createCampaign(BaseInput) and deleteCampaign("1")
StoreAfterDelete(now) ==
    deleteCampaignCall(createCampaignCall(StoreOfOne(now), BaseInput, now).store,
                       String(1)).store

\* the stores a request is tried against: the empty one, the one that holds
\* the campaign made from BaseInput, and the one left when the first of two
\* campaigns was deleted
PipelineStores ==
    {<<>>} \cup {StoreOfOne(now) : now \in Times}
           \cup {StoreAfterDelete(now) : now \in Times}

\* the ids createCampaign had handed out when it made the records of the
\* store: String(1) up to the highest id stored
AssignedBefore(store) ==
    {id \in IdInputs : \E i \in DOMAIN store : IdNum(id) <= IdNum(store[i].id)}

PipelineRequests ==
    [op : {"createCampaign"}, id : {""}, input : AllInputs, state : {"pending"}]
    \cup
    [op : {"updateCampaign"}, id : {String(1), String(2)}, input : AllInputs,
     state : {"pending"}]

InitPipeline ==
    /\ campaigns \in PipelineStores
    /\ lastCall = NoCall
    /\ assignedIds = AssignedBefore(campaigns)
    /\ request \in PipelineRequests
    /\ ClientInit
    /\ CrossIdle
    /\ MessagesInit
    /\ AppInit

HandleCreate ==
    /\ request.state = "pending"
    /\ request.op = "createCampaign"
    /\ \E now \in Times : createCampaign(request.input, now)
    /\ request' = [request EXCEPT !.state = "handled"]
    /\ UNCHANGED <<clientVars, crossVars, msgVars, appVars>>

HandleUpdate ==
    /\ request.state = "pending"
    /\ request.op = "updateCampaign"
    /\ updateCampaign(request.id, request.input)
    /\ request' = [request EXCEPT !.state = "handled"]
    /\ UNCHANGED <<clientVars, crossVars, msgVars, appVars>>

NextPipeline == HandleCreate \/ HandleUpdate

SpecPipeline == InitPipeline /\ [][NextPipeline]_vars

(***************************************************************************)
(* The submission flow: handleSubmit(onSubmit), the server, the answer     *)
(***************************************************************************)
RECURSIVE MessagesOf_FirstOnly(_, _)
\* criteriaMode 'firstError': only the first message of the field f
MessagesOf_FirstOnly(issues, f) ==
    IF issues = <<>>
    THEN <<>>
    ELSE IF PathJoin(Head(issues).path) = f
    THEN <<Head(issues).message>>
    ELSE MessagesOf_FirstOnly(Tail(issues), f)

RECURSIVE MessagesOf(_, _)
\* criteriaMode 'all': every message of the issues whose path is the field f
MessagesOf(issues, f) ==
    IF issues = <<>>
    THEN <<>>
    ELSE (IF PathJoin(Head(issues).path) = f THEN <<Head(issues).message>> ELSE <<>>)
         \o MessagesOf(Tail(issues), f)

\* the messages of the issues, per field, as the resolver hands them to the form
MessagesPerField(issues) ==
    [f \in {PathJoin(issues[i].path) : i \in DOMAIN issues} |->
        MessagesOf(issues, f)]

NoFieldErrors == [f \in {} |-> <<>>]

\* the submission under way has passed the stage
Reached(stage) == \E i \in DOMAIN stages : stages[i] = stage

\* the mutation is handed to the network, unless transformFormData threw
\* (catch ... finally setSubmitting(false))
SendMutation(transformed) ==
    IF transformed.kind = "throw"
    THEN /\ stages' = <<"FieldValidating", "CrossValidating", "Transforming">>
         /\ showError([duration |-> 0])
         /\ submitError' = MsgSubmitFailed
         /\ isSubmitting' = FALSE
         /\ UNCHANGED net
    ELSE /\ stages' = <<"FieldValidating", "CrossValidating", "Transforming", "Sent">>
         /\ isSubmitting' = TRUE
         /\ submitError' = Null
         /\ UNCHANGED msgVars
         /\ net' = [kind |-> "request", input |-> MutationInput(transformed.value)]

\* onSubmit(data): if (!validateBeforeSubmit(data)) return; ... createCampaign
onSubmit(data) ==
    /\ crossFieldErrors' = crossErrorsOf[data]
    /\ IF ~passesBeforeSubmit[data]
       THEN /\ stages' = <<"FieldValidating", "CrossValidating">>
            /\ UNCHANGED <<isSubmitting, submitError, net, msgVars>>
       ELSE SendMutation(transformedOf[data])

\* FormResolved calling onSubmit whatever the resolver found
FormResolved_AlwaysSubmits(data, issues) ==
    /\ fieldErrors' = MessagesPerField(issues)
    /\ onSubmit(data)

\* the resolver has given `issues` for the form values: with issues the form
\* shows them and onSubmit is not called
FormResolved(data, issues) ==
    IF issues # <<>>
    THEN /\ fieldErrors' = MessagesPerField(issues)
         /\ stages' = <<"FieldValidating">>
         /\ UNCHANGED <<crossFieldErrors, isSubmitting, submitError, net, msgVars>>
    ELSE /\ fieldErrors' = NoFieldErrors
         /\ onSubmit(data)

\* form.handleSubmit(onSubmit) on the form values `data`
handleSubmit(data) ==
    /\ net = NoMessage
    /\ formValues' = data
    /\ FormResolved(data, fieldIssuesOf[data])

\* the draft the form holds is one of Drafts
Submit == \E data \in Drafts : handleSubmit(data) /\ UNCHANGED <<serverVars, request, crossVars, appVars>>

\* what the service gets back for a call of the resolver
Answer(outcome) ==
    IF outcome.kind = "return"
    THEN [kind |-> "response", result |-> outcome.value]
    ELSE [kind |-> "failed"]

\* a createCampaign call has run on the server and its result is sent back
Answered(call) ==
    /\ Created(call)
    /\ net' = Answer(call.outcome)

\* the server runs createCampaign on the request and answers
ServerCreate ==
    /\ net.kind = "request"
    /\ \E now \in Times : Answered(createCampaignCall(campaigns, net.input, now))
    /\ UNCHANGED <<formValues, fieldErrors, crossFieldErrors, isSubmitting,
                   submitError, stages, request, crossVars, msgVars, appVars>>

\* the request or its answer is lost: apolloClient.mutate rejects
NetworkFail ==
    /\ net.kind \in {"request", "response"}
    /\ net' = [kind |-> "failed"]
    /\ UNCHANGED <<formValues, fieldErrors, crossFieldErrors, isSubmitting,
                   submitError, stages, serverVars, request, crossVars, msgVars, appVars>>

\* what CampaignService.createCampaign resolves to
ServiceResult(message) ==
    IF message.kind = "failed"
    THEN [success |-> FALSE,
          errors  |-> <<[field |-> "general", message |-> MsgNetwork]>>]
    ELSE message.result

\* ApplyFieldErrors leaving the controls as they were
ApplyFieldErrors_Skipped(errors, shown) == shown

RECURSIVE ApplyFieldErrors(_, _)
\* result.errors.forEach: form.setError(error.field, { message }) for the
\* errors whose field is not 'general'
ApplyFieldErrors(errors, shown) ==
    IF errors = <<>>
    THEN shown
    ELSE LET e == Head(errors)
         IN  ApplyFieldErrors(
                 Tail(errors),
                 IF e.field = "general"
                 THEN shown
                 ELSE [f \in DOMAIN shown \cup {e.field} |->
                          IF f = e.field THEN <<e.message>> ELSE shown[f]])

RECURSIVE ApplyGeneralErrors(_, _)
\* result.errors.forEach: setSubmitError(error.message) for the 'general' ones
ApplyGeneralErrors(errors, banner) ==
    IF errors = <<>>
    THEN banner
    ELSE ApplyGeneralErrors(
             Tail(errors),
             IF Head(errors).field = "general" THEN Head(errors).message ELSE banner)

\* the branches of onSubmit on the result of the mutation
Received(result) ==
    IF result.success /\ "campaign" \in DOMAIN result
    THEN \* clearForm(); setSubmitError(null); showSuccess(..., { duration: 4000 })
         /\ formValues' = EmptyForm
         /\ fieldErrors' = NoFieldErrors
         /\ crossFieldErrors' = NoErrors
         /\ submitError' = Null
         /\ showSuccess([duration |-> SuccessDuration])
    ELSE IF "errors" \in DOMAIN result
    THEN /\ fieldErrors' = ApplyFieldErrors(result.errors, fieldErrors)
         /\ submitError' = ApplyGeneralErrors(result.errors, submitError)
         /\ UNCHANGED <<formValues, crossFieldErrors, msgVars>>
    ELSE UNCHANGED <<formValues, fieldErrors, crossFieldErrors, submitError, msgVars>>

\* Receive with setSubmitting(false) at the end of the success branch only
Receive_FlagKeptOnErrors ==
    /\ net.kind \in {"response", "failed"}
    /\ Received(ServiceResult(net))
    /\ isSubmitting' = ~ServiceResult(net).success
    /\ net' = NoMessage
    /\ UNCHANGED <<stages, serverVars, request, crossVars, appVars>>

\* onSubmit resumes with the result of the mutation; finally setSubmitting(false)
Receive ==
    /\ net.kind \in {"response", "failed"}
    /\ Received(ServiceResult(net))
    /\ isSubmitting' = FALSE
    /\ net' = NoMessage
    /\ UNCHANGED <<stages, serverVars, request, crossVars, appVars>>

\* the stage of a submission abandoned while `message` was on the way
AbandonedWhile(message) ==
    IF message.kind = "request" THEN "AbandonedUnanswered" ELSE "AbandonedAnswered"

\* the page of the submission under way was left
Abandoned == Reached("AbandonedUnanswered") \/ Reached("AbandonedAnswered")

\* Abandon with the write of an accepted request taken back from the store
Abandon_UndoingWrite ==
    /\ net.kind \in {"request", "response"}
    /\ ~Abandoned
    /\ stages' = Append(stages, AbandonedWhile(net))
    /\ campaigns' = IF net.kind = "response" /\ net.result.success
                     THEN SubSeq(campaigns, 1, Len(campaigns) - 1)
                     ELSE campaigns
    /\ UNCHANGED <<lastCall, assignedIds, formValues, fieldErrors, crossFieldErrors,
                   isSubmitting, submitError, net, request, crossVars, msgVars, appVars>>

\* the user leaves the page (a <Link> of the navigation) while the mutation
\* is in flight: the page is unmounted; mutate() was called without a signal,
\* so the request and its answer stay where they are
Abandon ==
    /\ net.kind \in {"request", "response"}
    /\ ~Abandoned
    /\ stages' = Append(stages, AbandonedWhile(net))
    /\ campaigns' = campaigns
    /\ UNCHANGED <<lastCall, assignedIds, formValues, fieldErrors, crossFieldErrors,
                   isSubmitting, submitError, net, request, crossVars, msgVars, appVars>>

NextClient == Submit \/ ServerCreate \/ NetworkFail \/ Receive \/ Abandon

SpecClient == Init /\ [][NextClient]_vars

(***************************************************************************)
(* Cross-field validation of one draft, on the client and on the server    *)
(***************************************************************************)
\* day 0, the days around one day and around MaxDurationDays later, and a
\* day more than MaxDurationDays after those
CrossDays == {0, 1, MaxDurationDays - 1, MaxDurationDays, MaxDurationDays + 1,
              2 * MaxDurationDays + 1}

\* midnight of each day, and one millisecond after it
CrossDateStrings ==
    {DateOnly(d) : d \in CrossDays} \cup {IsoString(d, 1) : d \in CrossDays}

\* drafts that pass every field rule
CrossDrafts ==
    [name : {NameSummerSale}, budget : {BudgetTen},
     startDate : CrossDateStrings, endDate : CrossDateStrings]

\* the validationData the server builds from the mutation input the client
\* sends for the form values
sentData(data) == validationData(MutationInput(transformFormData(data).value))

InitCross ==
    /\ campaigns = <<>>
    /\ lastCall = NoCall
    /\ assignedIds = {}
    /\ request = NoRequest
    /\ ClientInit
    /\ crossInput \in CrossDrafts
    /\ crossResult = [applied |-> FALSE]
    /\ MessagesInit
    /\ AppInit

\* what the two rule sets answer: the client's Record of errors, the issues
\* of the server's schema, and the errors the resolver's catch block makes of
\* those issues
CrossAnswers(clientErrors, base) ==
    [applied |-> TRUE,
     client  |-> clientErrors,
     server  |-> base.issues,
     errors  |-> validationErrors(ZodError(base.issues))]

\* the draft is validated by validateCrossFields, and what the client would
\* send for it by baseCampaignSchema
CrossValidate ==
    /\ ~crossResult.applied
    /\ crossResult' = CrossAnswers(validateCrossFields(crossInput),
                                   baseCampaignSchema(sentData(crossInput)))
    /\ UNCHANGED <<serverVars, request, clientVars, crossInput, msgVars, appVars>>

NextCross == CrossValidate

SpecCross == InitCross /\ [][NextCross]_vars

(***************************************************************************)
(* The field rules applied to one draft: campaignFieldSchema and           *)
(* campaignSubmissionSchema                                                *)
(***************************************************************************)
\* "a!"
NameShortBad == <<"a", "!">>

NameFifteen == <<"B", "l", "a", "c", "k", " ", "F", "r", "i", "d", "a", "y", " ", "2", "4">>

NameSixteen == <<"S", "p", "r", "i", "n", "g", " ", "S", "a", "l", "e", " ", "2", "0", "2", "4">>

\* names of 0, 2, 3, 5 (one letter between spaces), 9, 11, 15, 16 and 17
\* characters
FieldNames ==
    {<<>>, NameShort, NameShortBad, NameText, NamePadded, NameRiskFree,
     NameSummerSale, NameFifteen, NameSixteen, NameLong}

BudgetThousand == <<"1", "0", "0", "0">>

BudgetAbove == <<"1", "0", "0", "0", ".", "0", "1">>

BudgetNegative == <<"-", "5">>

BudgetTrailing == <<"1", "0", "a", "b", "c">>

BudgetPadded == <<" ", "1", "0">>

FieldBudgets ==
    {<<>>, NameText, BudgetBelow, BudgetTen, BudgetThousand, BudgetAbove,
     BudgetNegative, BudgetTrailing, BudgetPadded}

\* drafts whose start date passes every rule, with an end date or without
FieldDrafts ==
    [name : FieldNames, budget : FieldBudgets,
     startDate : {DateOnly(0)}, endDate : {DateOnly(MaxDurationDays), EmptyString}]

InitField ==
    /\ campaigns = <<>>
    /\ lastCall = NoCall
    /\ assignedIds = {}
    /\ request = NoRequest
    /\ ClientInit
    /\ crossInput \in FieldDrafts
    /\ crossResult = [applied |-> FALSE]
    /\ MessagesInit
    /\ AppInit

\* the draft is validated by the resolver's campaignFieldSchema and parsed by
\* campaignSubmissionSchema
FieldValidate ==
    /\ ~crossResult.applied
    /\ crossResult' = [applied    |-> TRUE,
                       field      |-> campaignFieldSchema(crossInput),
                       shown      |-> MessagesPerField(campaignFieldSchema(crossInput)),
                       submission |-> transformFormData(crossInput)]
    /\ UNCHANGED <<serverVars, request, clientVars, crossInput, msgVars, appVars>>

NextField == FieldValidate

SpecField == InitField /\ [][NextField]_vars

(***************************************************************************)
(* The message store under any sequence of calls, with time passing        *)
(***************************************************************************)
\* the options a caller passes: none, { duration: 0 }, { duration: 4000 }
MessageOptions == {NoOptions, [duration |-> 0], [duration |-> SuccessDuration]}

InitMessages ==
    /\ campaigns = <<>>
    /\ lastCall = NoCall
    /\ assignedIds = {}
    /\ request = NoRequest
    /\ ClientInit
    /\ CrossIdle
    /\ MessagesInit
    /\ AppInit

ShowSuccess ==
    /\ nextId <= MaxMessages
    /\ \E options \in MessageOptions : showSuccess(options)

ShowError ==
    /\ nextId <= MaxMessages
    /\ \E options \in MessageOptions : showError(options)

\* a caller (the toast's close button) removes a message by its id
RemoveMessage ==
    \E id \in 1..(nextId - 1) :
        /\ removeMessage(id)
        /\ msgCall' = [op |-> "removeMessage", id |-> id]
        /\ UNCHANGED <<timers, clock, nextId>>

ClearMessages ==
    /\ clearMessages
    /\ msgCall' = [op |-> "clearMessages", id |-> 0]
    /\ UNCHANGED <<timers, clock, nextId>>

\* a setTimeout callback whose time has come runs: get().removeMessage(id)
Timeout ==
    \E t \in timers :
        /\ clock >= t.due
        /\ removeMessage(t.id)
        /\ timers' = timers \ {t}
        /\ msgCall' = [op |-> "timeout", id |-> t.id]
        /\ UNCHANGED <<clock, nextId>>

\* time passes, up to the time a pending callback is due
Tick ==
    \E t \in timers :
        /\ t.due > clock
        /\ clock' = t.due
        /\ UNCHANGED <<messages, timers, nextId, msgCall>>

NextMessages ==
    \/ ShowSuccess /\ UNCHANGED <<serverVars, request, clientVars, crossVars, appVars>>
    \/ ShowError /\ UNCHANGED <<serverVars, request, clientVars, crossVars, appVars>>
    \/ RemoveMessage /\ UNCHANGED <<serverVars, request, clientVars, crossVars, appVars>>
    \/ ClearMessages /\ UNCHANGED <<serverVars, request, clientVars, crossVars, appVars>>
    \/ Timeout /\ UNCHANGED <<serverVars, request, clientVars, crossVars, appVars>>
    \/ Tick /\ UNCHANGED <<serverVars, request, clientVars, crossVars, appVars>>

\* time does not stop and the event loop runs every callback that is due
SpecMessages ==
    /\ InitMessages
    /\ [][NextMessages]_vars
    /\ WF_msgVars(Tick)
    /\ WF_msgVars(Timeout)

(***************************************************************************)
(* The event bus under any sequence of calls (SpecBus)                     *)
(***************************************************************************)
\* the emits of one behaviour of SpecBus
MaxBusEmits == 2

\* the event types the callers of SpecBus use
BusTypes == {"DATA_UPDATED", "ERROR_OCCURRED"}

\* the payloads the callers of SpecBus emit
Payloads == {[test |-> "data"], [test |-> "other"]}

On ==
    /\ \E type \in BusTypes, listener \in Listeners : on(type, listener)
    /\ UNCHANGED <<serverVars, request, clientVars, crossVars, msgVars, storeVars>>

Off ==
    /\ \E type \in BusTypes, listener \in Listeners : off(type, listener)
    /\ UNCHANGED <<serverVars, request, clientVars, crossVars, msgVars, storeVars>>

\* a caller runs an unsubscribe function that an on has returned
Unsubscribe ==
    /\ \E type \in BusTypes, listener \in Listeners :
          /\ busHandles[<<type, listener>>] # "none"
          /\ unsubscribe(type, listener)
    /\ UNCHANGED <<serverVars, request, clientVars, crossVars, msgVars, storeVars>>

Emit ==
    /\ busClock < MaxBusEmits
    /\ \E type \in BusTypes, payload \in Payloads : emit(type, payload)
    /\ UNCHANGED <<serverVars, request, clientVars, crossVars, msgVars, storeVars>>

Clear ==
    /\ clear
    /\ UNCHANGED <<serverVars, request, clientVars, crossVars, msgVars, storeVars>>

NextBus == On \/ Off \/ Unsubscribe \/ Emit \/ Clear

SpecBus == Init /\ [][NextBus]_vars

(***************************************************************************)
(* The history of the event bus over a long run of emits (SpecHistory)     *)
(***************************************************************************)
\* the emits of one behaviour of SpecHistory
MaxEmits == 102

\* the n-th event of the run: the types in turn, the payload naming n
TypeAt(n) ==
    CASE n % 4 = 1 -> "CHARACTER_SELECTED"
      [] n % 4 = 2 -> "DATA_UPDATED"
      [] n % 4 = 3 -> "ERROR_OCCURRED"
      [] OTHER     -> "CACHE_CLEARED"

EmitNext ==
    /\ busClock < MaxEmits
    /\ emit(TypeAt(busClock + 1), [n |-> busClock + 1])
    /\ UNCHANGED <<serverVars, request, clientVars, crossVars, msgVars, storeVars>>

NextHistory == EmitNext \/ Clear

SpecHistory == Init /\ [][NextHistory]_vars

(***************************************************************************)
(* The stores under overlapping service calls (SpecStores)                 *)
(***************************************************************************)
\* the service calls begun in one behaviour of SpecStores
MaxRequests == 2

Pages == {1, 2}

Rick == [id |-> "1", name |-> "Rick"]

Morty == [id |-> "2", name |-> "Morty"]

\* what the characters query answers for a page of a list of two pages
CharactersPage(page) ==
    [characters |->
        [results |-> IF page = 1 THEN <<Rick>> ELSE <<Morty>>,
         info    |-> [pages |-> 2,
                      next  |-> IF page = 1 THEN 2 ELSE NoPage,
                      prev  |-> IF page = 1 THEN NoPage ELSE 1]]]

Healthy == [status |-> "healthy"]

StoredItem == [id |-> "1", name |-> "first", value |-> "one"]

CreateInput == [name |-> "second", value |-> "two"]

CreatedItem == CreateInput @@ [id |-> "2"]

\* what a rejected promise carries: an Error, or a value that is none
Failures == {[isError |-> TRUE, message |-> "Network error"], [isError |-> FALSE]}

\* how the service call of a request in flight may settle
Outcomes(call) ==
    {Throw(failure) : failure \in Failures}
    \cup {Return(CASE call.kind = "fetchCharacters"   -> CharactersPage(call.arg)
                   [] call.kind = "fetchCharacter"    -> Rick
                   [] call.kind = "fetchHealth"       -> Healthy
                   [] call.kind = "fetchInternalData" -> <<StoredItem>>
                   [] OTHER                           -> CreatedItem)}

FetchCharacters ==
    /\ requested < MaxRequests
    /\ \E page \in Pages : fetchCharactersBegin(page)
    /\ UNCHANGED <<serverVars, request, clientVars, crossVars, msgVars>>

FetchCharacter ==
    /\ requested < MaxRequests
    /\ fetchCharacterBegin(Rick.id)
    /\ UNCHANGED <<serverVars, request, clientVars, crossVars, msgVars>>

FetchHealth ==
    /\ requested < MaxRequests
    /\ fetchHealthBegin
    /\ UNCHANGED <<serverVars, request, clientVars, crossVars, msgVars>>

FetchInternalData ==
    /\ requested < MaxRequests
    /\ fetchInternalDataBegin
    /\ UNCHANGED <<serverVars, request, clientVars, crossVars, msgVars>>

CreateInternalData ==
    /\ requested < MaxRequests
    /\ createInternalDataBegin(CreateInput)
    /\ UNCHANGED <<serverVars, request, clientVars, crossVars, msgVars>>

\* the rest of the action that awaited the call
End(call, outcome) ==
    CASE call.kind = "fetchCharacters"   -> fetchCharactersEnd(call.arg, outcome)
      [] call.kind = "fetchCharacter"    -> fetchCharacterEnd(call.arg, outcome)
      [] call.kind = "fetchHealth"       -> fetchHealthEnd(outcome)
      [] call.kind = "fetchInternalData" -> fetchInternalDataEnd(outcome)
      [] OTHER                           -> createInternalDataEnd(outcome)

\* a service call in flight settles, whichever began first
Settle ==
    /\ \E i \in 1..Len(inFlight) : \E outcome \in Outcomes(inFlight[i]) :
          /\ End(inFlight[i], outcome)
          /\ Settled(i, outcome)
    /\ UNCHANGED <<serverVars, request, clientVars, crossVars, msgVars>>

NextStores ==
    \/ FetchCharacters
    \/ FetchCharacter
    \/ FetchHealth
    \/ FetchInternalData
    \/ CreateInternalData
    \/ Settle

SpecStores == Init /\ [][NextStores]_vars

(***************************************************************************)
(* Properties of the store under any sequence of mutations (Spec)          *)
(***************************************************************************)
IsValidatedOp(call) == call.op \in {"createCampaign", "updateCampaign"}

IsFailure(call) ==
    IsValidatedOp(call) /\ call.outcome.kind = "return" /\ ~call.outcome.value.success

\* C1: a createCampaign or updateCampaign call that returns success=false
\* leaves the campaign list exactly as it was; the list changes in such a
\* call only when it returns success=true.
C1_NoPartialPersistence ==
    [][(IsValidatedOp(lastCall') /\ ~IsSuccess(lastCall'.outcome))
          => campaigns' = campaigns]_vars

\* a rejected updateCampaign has run against a store that holds a campaign
C1_Witness ==
    /\ lastCall.op = "updateCampaign"
    /\ IsFailure(lastCall)
    /\ lastCall.outcome.value.errors[1].field = "budget"
    /\ Len(campaigns) = MaxCampaigns

\* whole days and milliseconds between the stored start and end
StoredDuration(c) == DiffTime(NewDate(c.endDate), NewDate(c.startDate))

\* C2: every stored campaign has 10 <= budget <= 1000, an endDate strictly
\* later than its startDate and a duration of at most 30 days.
C2_StoredCampaignsValid ==
    \A i \in DOMAIN campaigns :
        LET c == campaigns[i]
        IN  /\ c.budget >= BudgetMin * Scale
            /\ c.budget <= BudgetMax * Scale
            /\ DateAfter(NewDate(c.endDate), NewDate(c.startDate))
            /\ \/ StoredDuration(c).day < MaxDurationDays
               \/ StoredDuration(c).day = MaxDurationDays /\ StoredDuration(c).ms = 0

\* a campaign of exactly 30 days with the largest budget is stored after an update
C2_Witness ==
    /\ lastCall.op = "updateCampaign"
    /\ IsSuccess(lastCall.outcome)
    /\ \E i \in DOMAIN campaigns :
          /\ campaigns[i].budget = BudgetMax * Scale
          /\ StoredDuration(campaigns[i]) = [day |-> MaxDurationDays, ms |-> 0]

IsLetterDigitOrSpace(c) ==
    c \in Range(LowerCase) \cup Range(UpperCase) \cup Digits \cup {" "}

\* C3: the name of every stored campaign has between 3 and 15 characters
\* and consists only of letters, digits and spaces.
C3_StoredNamesValid ==
    \A i \in DOMAIN campaigns :
        /\ Len(campaigns[i].name) >= NameMinLen
        /\ Len(campaigns[i].name) <= NameMaxLen
        /\ \A k \in DOMAIN campaigns[i].name : IsLetterDigitOrSpace(campaigns[i].name[k])

\* the number an id was made from
CreatedInStep ==
    /\ lastCall'.op = "createCampaign"
    /\ IsSuccess(lastCall'.outcome)
    /\ Len(campaigns') = Len(campaigns) + 1

\* C4: the ids createCampaign assigns are strictly increasing: no two stored
\* campaigns share an id and an id handed out earlier (also one whose
\* campaign was deleted since) is never assigned again.
C4_IdsStrictlyIncreasing ==
    [][/\ \A i, j \in DOMAIN campaigns' :
             i # j => campaigns'[i].id # campaigns'[j].id
       /\ CreatedInStep =>
             \A old \in assignedIds :
                 IdNum(old) < IdNum(lastCall'.outcome.value.campaign.id)]_vars

\* C6: every createCampaign and updateCampaign call ends by returning a
\* result, never by throwing, and the result is either success=true with a
\* campaign and no errors, or success=false with a non-empty error list and
\* no campaign.
C6_ResultShape ==
    IsValidatedOp(lastCall) =>
        /\ lastCall.outcome.kind = "return"
        /\ LET r == lastCall.outcome.value
           IN  \/ /\ r.success
                  /\ DOMAIN r = {"success", "campaign"}
               \/ /\ ~r.success
                  /\ DOMAIN r = {"success", "errors"}
                  /\ Len(r.errors) >= 1

\* a call rejected by validation has returned its error list
C6_Witness ==
    /\ lastCall.op = "createCampaign"
    /\ IsFailure(lastCall)
    /\ Len(lastCall.outcome.value.errors) = 2

UpdatedInStep ==
    /\ lastCall'.op = "updateCampaign"
    /\ IsSuccess(lastCall'.outcome)

\* the record at position k was replaced by `updated`, which kept its id,
\* status and createdAt, and no other position changed
OnlyReplacedAt(k, updated) ==
    /\ campaigns'[k] = updated
    /\ updated.id = campaigns[k].id
    /\ updated.status = campaigns[k].status
    /\ updated.createdAt = campaigns[k].createdAt
    /\ \A j \in DOMAIN campaigns : j # k => campaigns'[j] = campaigns[j]

\* C14: a successful updateCampaign changes only the name, budget, startDate
\* and endDate of the campaign with the given id: its id, status, createdAt
\* and position in the list, and every other stored campaign, are unchanged.
C14_UpdateTouchesOnlyItsCampaign ==
    [][UpdatedInStep =>
          /\ DOMAIN campaigns' = DOMAIN campaigns
          /\ \E k \in DOMAIN campaigns :
                OnlyReplacedAt(k, lastCall'.outcome.value.campaign)]_vars

\* an update has changed the budget of the first of two stored campaigns
C14_Witness ==
    /\ lastCall.op = "updateCampaign"
    /\ IsSuccess(lastCall.outcome)
    /\ Len(campaigns) = 2
    /\ campaigns[1] = lastCall.outcome.value.campaign
    /\ campaigns[1].budget = BudgetMax * Scale
    /\ campaigns[2].budget = BudgetMin * Scale

\* a createCampaign call has answered success=true
CreateAccepted(call) == call.op = "createCampaign" /\ IsSuccess(call.outcome)

FirstWithId(id) ==
    IF \E i \in DOMAIN campaigns : campaigns[i].id = id
    THEN CHOOSE i \in DOMAIN campaigns :
             /\ campaigns[i].id = id
             /\ \A j \in 1..(i - 1) : campaigns[j].id # id
    ELSE 0

\* exactly the record at position k is gone: those before it stay where they
\* were and those after it move up by one
OnlyRemovedAt(k) ==
    /\ Len(campaigns') = Len(campaigns) - 1
    /\ \A j \in 1..(k - 1) : campaigns'[j] = campaigns[j]
    /\ \A j \in (k + 1)..Len(campaigns) : campaigns'[j - 1] = campaigns[j]

\* C27: deleteCampaign(id) returns true and removes exactly one campaign,
\* the first whose id equals id, when such a campaign exists, leaving all
\* other campaigns and their order unchanged; it returns false and leaves
\* the store unchanged when none exists.
C27_DeleteRemovesFirstMatchOnly ==
    [][lastCall'.op = "deleteCampaign" =>
          IF FirstWithId(lastCall'.id) # 0
          THEN /\ lastCall'.outcome = Return(TRUE)
               /\ OnlyRemovedAt(FirstWithId(lastCall'.id))
          ELSE /\ lastCall'.outcome = Return(FALSE)
               /\ campaigns' = campaigns]_vars

\* deleteCampaign("2") has removed the first of two campaigns that had the
\* id "2"; the other one is still stored
C27_Witness ==
    /\ lastCall.op = "deleteCampaign"
    /\ lastCall.id = String(2)
    /\ lastCall.outcome = Return(TRUE)
    /\ Len(campaigns) = 1
    /\ campaigns[1].id = String(2)

\* C15: every error returned by createCampaign or updateCampaign has a
\* field that is one of name, budget, startDate, endDate, or 'general'.
C15_ErrorFieldsNameInputOrGeneral ==
    IsFailure(lastCall) =>
        \A i \in DOMAIN lastCall.outcome.value.errors :
            lastCall.outcome.value.errors[i].field
                \in {"name", "budget", "startDate", "endDate", "general"}

(***************************************************************************)
(* Properties of one validated request (SpecPipeline)                      *)
(***************************************************************************)
Handled == request.op # "none" /\ request.state = "handled"

HasError(call, field, msg) ==
    /\ IsFailure(call)
    /\ \E i \in DOMAIN call.outcome.value.errors :
          call.outcome.value.errors[i] = [field |-> field, message |-> msg]

HasMessage(call, msg) ==
    /\ IsFailure(call)
    /\ \E i \in DOMAIN call.outcome.value.errors :
          call.outcome.value.errors[i].message = msg

\* the lower-cased name contains a word of the prohibited list
ContainsProhibited(name) ==
    \E i \in DOMAIN invalidWords : Includes(toLowerCase(name), invalidWords[i])

StoreHasNoProhibitedName ==
    \A i \in DOMAIN campaigns : ~ContainsProhibited(campaigns[i].name)

\* the request reached serverCampaignSchema.parse
WasValidated ==
    request.op = "createCampaign" \/ findIndex(campaigns, request.id) # 0

BothDatesValid ==
    /\ ~IsNaNDate(NewDate(request.input.startDate))
    /\ ~IsNaNDate(NewDate(request.input.endDate))

ProhibitedOnly ==
    {in \in AllInputs :
        /\ ContainsProhibited(in.name)
        /\ baseCampaignSchema(validationData(in)).issues = <<>>}

\* the error list createCampaign returns for an input
ErrorsFor(input) ==
    createCampaignCall(<<>>, input, CHOOSE now \in Times : TRUE).outcome.value.errors

\* C18: the server's response does not reveal which prohibited word matched:
\* for any two inputs that are valid apart from each name containing some
\* prohibited word, the error lists returned are identical (same field, same
\* message), whatever the two words are.
C18_SameErrorsWhateverTheWord ==
    (Handled /\ WasValidated /\ request.input \in ProhibitedOnly) =>
        /\ IsFailure(lastCall)
        /\ \A other \in ProhibitedOnly :
              ErrorsFor(other) = lastCall.outcome.value.errors

\* a name with 'spam' was rejected, and an input naming 'casino' with another
\* budget is rejected with the same list
C18_Witness ==
    /\ Handled
    /\ WasValidated
    /\ request.input \in ProhibitedOnly
    /\ request.input.name = NameSpamOffer
    /\ [BaseInput EXCEPT !.name = NameCasino, !.budget = BudgetMax * Scale]
           \in ProhibitedOnly
    /\ lastCall.outcome.value.errors = <<[field |-> "name", message |-> MsgProhibited]>>

\* an updateCampaign request is pending whose id matches no stored campaign
UnknownIdPending ==
    /\ request.op = "updateCampaign"
    /\ request.state = "pending"
    /\ \A i \in DOMAIN campaigns : campaigns[i].id # request.id

\* C26: updateCampaign with an id that matches no stored campaign returns
\* success=false with the single error 'Campaign not found' without
\* validating the input (whatever the input is), and leaves the store
\* unchanged; this holds also for the id of a campaign that was deleted
\* earlier.
C26_UnknownIdNotFound ==
    [][(UnknownIdPending /\ request'.state = "handled") =>
          /\ lastCall'.outcome.kind = "return"
          /\ ~lastCall'.outcome.value.success
          /\ DOMAIN lastCall'.outcome.value = {"success", "errors"}
          /\ Len(lastCall'.outcome.value.errors) = 1
          /\ lastCall'.outcome.value.errors[1].message = MsgNotFound
          /\ campaigns' = campaigns]_vars

\* an update of the deleted campaign "1" with an invalid name and an invalid
\* date got 'Campaign not found' and nothing else
C26_Witness ==
    /\ Handled
    /\ request.op = "updateCampaign"
    /\ request.id = String(1)
    /\ request.id \in assignedIds
    /\ Len(campaigns) = 1
    /\ campaigns[1].id = String(2)
    /\ request.input.name = NameShort
    /\ request.input.startDate = Unparseable
    /\ lastCall.outcome.value.errors = <<[field |-> "id", message |-> MsgNotFound]>>

(***************************************************************************)
(* Properties of the submission flow (SpecClient)                          *)
(***************************************************************************)
\* C8 as stated: once a submission has reached cross-field validation the
\* campaign is sent to the server, whether or not cross-field validation
\* produced errors.
C8_SentRegardlessOfCrossErrors ==
    Reached("CrossValidating") => Reached("Sent")

\* C8 amended: a submission that has reached cross-field validation is sent
\* to the server exactly when cross-field validation produced no errors.
C8_SentOnlyWithoutCrossErrors ==
    Reached("CrossValidating") =>
        (Reached("Sent") <=> DOMAIN crossFieldErrors = {})

\* a submission stopped at cross-field validation with an error on endDate,
\* and nothing went to the server
C8_Witness ==
    /\ Reached("CrossValidating")
    /\ ~Reached("Sent")
    /\ "endDate" \in DOMAIN crossFieldErrors
    /\ net = NoMessage
    /\ ~isSubmitting

\* onSubmit resumes in this step with what the service resolved to
ReceivedInStep == net.kind \in {"response", "failed"} /\ net' = NoMessage

\* no error after the i-th one names the same field
LastForItsField(errors, i) ==
    \A j \in DOMAIN errors : j > i => errors[j].field # errors[i].field

\* every error is shown where its field says: on the control of that name,
\* or in the banner when the field is 'general'
ShowsErrors(errors, controls, banner) ==
    \A i \in DOMAIN errors :
        LastForItsField(errors, i) =>
            IF errors[i].field = "general"
            THEN banner = errors[i].message
            ELSE /\ errors[i].field \in DOMAIN controls
                 /\ controls[errors[i].field] = <<errors[i].message>>

\* C17: for every error of a failing server response the client sets the
\* message on the form control named by the error's field when the field is
\* not 'general', and sets the banner submitError when it is; a transport
\* failure reaches the form as a single 'general' error and sets no field
\* error.
C17_BackendErrorsReachControlOrBanner ==
    [][ReceivedInStep =>
          /\ (net.kind = "response" /\ ~net.result.success) =>
                ShowsErrors(net.result.errors, fieldErrors', submitError')
          /\ net.kind = "failed" =>
                /\ submitError' = MsgNetwork
                /\ fieldErrors' = fieldErrors]_vars

\* the server's error for the name is on the name control and the banner is
\* empty
C17_Witness ==
    /\ net = NoMessage
    /\ Reached("Sent")
    /\ IsFailure(lastCall)
    /\ "name" \in DOMAIN fieldErrors
    /\ fieldErrors["name"] = <<lastCall.outcome.value.errors[1].message>>
    /\ lastCall.outcome.value.errors[1].field = "name"
    /\ submitError = Null

\* the server answers in this step the request of an abandoned submission
AnsweredAbandonedInStep ==
    Reached("AbandonedUnanswered") /\ net.kind = "request" /\ net'.kind = "response"

\* the step leaves every stored campaign where it was
KeepsStored ==
    /\ Len(campaigns') >= Len(campaigns)
    /\ \A i \in DOMAIN campaigns : campaigns'[i] = campaigns[i]

\* C19: if the client abandons a submission after the createCampaign request
\* was sent and before the response arrives, the server still completes the
\* pipeline and persists the campaign when the input is accepted: the answer
\* to an abandoned request is success exactly when serverCampaignSchema
\* accepts the input, the accepted campaign is appended to the store, and no
\* step that leaves the submission abandoned takes a stored campaign away.
C19_AbandonedRequestStillPersisted ==
    [][/\ AnsweredAbandonedInStep =>
             /\ net'.result.success <=> serverParse[net.input].kind = "return"
             /\ net'.result.success =>
                   campaigns' = Append(campaigns, net'.result.campaign)
       /\ Abandoned' => KeepsStored]_vars

\* the campaign of a submission abandoned while its request was on the way
\* is in the store
C19_Witness ==
    /\ Reached("AbandonedUnanswered")
    /\ net.kind = "response"
    /\ net.result.success
    /\ lastCall.op = "createCampaign"
    /\ campaigns # <<>>
    /\ campaigns[Len(campaigns)] = net.result.campaign
    /\ lastCall.outcome.value.campaign = net.result.campaign

\* form.handleSubmit runs in this step: nothing is in flight before it
SubmittedInStep == net = NoMessage /\ formValues' \in Drafts

\* C24: a submission whose field validation produced any error never reaches
\* transformation, cross-field validation or the server: no createCampaign
\* request is sent for it, and a request is sent only after both the field
\* stage and the cross-field stage produced no error.
C24_FieldErrorsStopTheSubmission ==
    [][SubmittedInStep =>
          /\ campaignFieldSchema(formValues') # <<>> =>
                /\ stages' = <<"FieldValidating">>
                /\ net' = NoMessage
                /\ DOMAIN fieldErrors' # {}
          /\ net'.kind = "request" =>
                /\ campaignFieldSchema(formValues') = <<>>
                /\ DOMAIN validateCrossFields(formValues') = {}
                /\ stages' = <<"FieldValidating", "CrossValidating",
                               "Transforming", "Sent">>]_vars

\* a draft with a budget below the minimum stopped at field validation
C24_Witness ==
    /\ stages = <<"FieldValidating">>
    /\ formValues.budget = BudgetBelow
    /\ "budget" \in DOMAIN fieldErrors
    /\ net = NoMessage
    /\ ~isSubmitting

\* a createCampaign request of the client is outstanding: sent, and onSubmit
\* has not resumed with its result
Outstanding == net.kind \in {"request", "response", "failed"}

\* C28: the client's isSubmitting flag is true only while a createCampaign
\* request is outstanding: it is set before the request is sent and is false
\* again after the submission has ended, whether it ended in success, in
\* server errors or in a thrown exception; a submission stopped by
\* cross-field errors never sets it.
C28_SubmittingOnlyWhileOutstanding ==
    /\ [](isSubmitting <=> Outstanding)
    /\ [][ReceivedInStep => ~isSubmitting']_vars
    /\ [][(SubmittedInStep /\ stages' = <<"FieldValidating", "CrossValidating">>)
             => (~isSubmitting /\ ~isSubmitting')]_vars

\* a submission that ended in a transport failure has left the flag false
C28_Witness ==
    /\ net = NoMessage
    /\ Reached("Sent")
    /\ submitError = MsgNetwork
    /\ ~isSubmitting

\* C29: every draft that the client pipeline accepts (field schema,
\* submission transformation and cross-field checks) and whose name contains
\* no prohibited word is also accepted by the server's createCampaign when
\* the transformed record is sent: the server never rejects such a record on
\* a field or cross-field rule.
C29_ClientAcceptedIsServerAccepted ==
    (net.kind = "response" /\ ~ContainsProhibited(formValues.name)) =>
        net.result.success

(***************************************************************************)
(* Properties of cross-field validation (SpecCross)                        *)
(***************************************************************************)
crossStart == NewDate(crossInput.startDate)

crossEnd == NewDate(crossInput.endDate)

ClientRejects(message) ==
    /\ "endDate" \in DOMAIN crossResult.client
    /\ crossResult.client["endDate"] = message

ServerRejects(message) ==
    \E i \in DOMAIN crossResult.server :
        crossResult.server[i] = Issue("endDate", message)

\* the end is later than MaxDurationDays days after the start
LaterThanMaxDuration ==
    DateAfter(crossEnd, DateValue(crossStart.day + MaxDurationDays, crossStart.ms))

\* C9: for every pair of valid dates with endDate <= startDate, cross-field
\* validation rejects on endDate with 'End date must be after start date',
\* on the client and on the server.
C9_OrderingMessageForEveryReversedPair ==
    (crossResult.applied /\ DateNotAfter(crossEnd, crossStart)) =>
        /\ ClientRejects(MsgOrdering)
        /\ ServerRejects(MsgOrdering)

\* C10: for every pair of dates with endDate > startDate, cross-field
\* validation rejects on endDate with 'Campaign duration cannot exceed 30
\* days' exactly when the end is more than 30 days after the start, on the
\* client and on the server: exactly 30 days is accepted, 30 days and one
\* millisecond is rejected.
C10_DurationRejectedExactlyBeyond30Days ==
    (crossResult.applied /\ DateAfter(crossEnd, crossStart)) =>
        /\ ClientRejects(MsgDuration) <=> LaterThanMaxDuration
        /\ ServerRejects(MsgDuration) <=> LaterThanMaxDuration
        /\ ~LaterThanMaxDuration =>
              (DOMAIN crossResult.client = {} /\ crossResult.server = <<>>)

\* a pair 30 days and one millisecond apart was rejected on both sides
C10_Witness ==
    /\ crossResult.applied
    /\ crossInput.startDate = DateOnly(0)
    /\ crossInput.endDate = IsoString(MaxDurationDays, 1)
    /\ ClientRejects(MsgDuration)
    /\ ServerRejects(MsgDuration)

\* the end is more than MaxDurationDays days before the start: the ordering
\* rule and the duration rule both fail
BothCrossRulesFail ==
    DateAfter(crossStart, DateValue(crossEnd.day + MaxDurationDays, crossEnd.ms))

IsEndDateError(error) == error.field = "endDate"

\* the errors of the server result that are attributed to endDate
ServerEndDateErrors == SelectSeq(crossResult.errors, IsEndDateError)

\* C11 as stated: when the ordering rule and the duration rule both fail,
\* cross-field validation surfaces exactly one error for endDate, the
\* duration message, on the client and in the server's result.
C11_OneDurationErrorEverywhere ==
    (crossResult.applied /\ BothCrossRulesFail) =>
        /\ crossResult.client = [f \in {"endDate"} |-> MsgDuration]
        /\ ServerEndDateErrors = <<[field |-> "endDate", message |-> MsgDuration]>>

\* C11 amended: when both rules fail, the client's validateCrossFields
\* surfaces exactly one error for endDate, the duration message (the
\* ordering message is overwritten), while the server's result keeps both:
\* the ordering error followed by the duration error, both on endDate.
C11_ClientOverwritesServerKeepsBoth ==
    (crossResult.applied /\ BothCrossRulesFail) =>
        /\ crossResult.client = [f \in {"endDate"} |-> MsgDuration]
        /\ crossResult.errors = <<[field |-> "endDate", message |-> MsgOrdering],
                                  [field |-> "endDate", message |-> MsgDuration]>>

\* a pair whose end is 61 days before its start was validated on both sides
C11_Witness ==
    /\ crossResult.applied
    /\ BothCrossRulesFail
    /\ crossInput.endDate = DateOnly(0)
    /\ ClientRejects(MsgDuration)
    /\ Len(crossResult.errors) = 2

(***************************************************************************)
(* Properties of the field rules (SpecField)                               *)
(***************************************************************************)
\* the field schema reports `message` on `field`
FieldRejects(field, message) ==
    \E i \in DOMAIN crossResult.field : crossResult.field[i] = Issue(field, message)

\* the field schema reports nothing on `field`
FieldAccepts(field) ==
    \A i \in DOMAIN crossResult.field : crossResult.field[i].path # <<field>>

SubmissionIssues ==
    IF crossResult.submission.kind = "throw"
    THEN crossResult.submission.error.issues
    ELSE <<>>

SubmissionRejects(field, message) ==
    \E i \in DOMAIN SubmissionIssues : SubmissionIssues[i] = Issue(field, message)

SubmissionAccepts(field) ==
    \A i \in DOMAIN SubmissionIssues : SubmissionIssues[i].path # <<field>>

TrimmedLength == Len(Trim(crossInput.name))

\* C12: the field rules reject every name whose length after trimming is
\* below 3 (too short) or above 15 (too long), and accept every name of 3 to
\* 15 characters made only of letters, digits and spaces.
C12_NameJudgedByTrimmedLength ==
    crossResult.applied =>
        /\ TrimmedLength < NameMinLen =>
              (FieldRejects("name", MsgNameMin) /\ SubmissionRejects("name", MsgNameMin))
        /\ TrimmedLength > NameMaxLen =>
              (FieldRejects("name", MsgNameMax) /\ SubmissionRejects("name", MsgNameMax))
        /\ ( /\ Len(crossInput.name) >= NameMinLen
             /\ Len(crossInput.name) <= NameMaxLen
             /\ \A k \in DOMAIN crossInput.name : IsLetterDigitOrSpace(crossInput.name[k]) )
           => (FieldAccepts("name") /\ SubmissionAccepts("name"))

\* the budget strings that read as a number from 10 to 1000: "10", "1000",
\* "10abc" (parseFloat reads the leading number) and " 10"
BudgetsInRange == {BudgetTen, BudgetThousand, BudgetTrailing, BudgetPadded}

\* the budget strings that do not read as a number: "" and "abc"
BudgetsNotNumbers == {<<>>, NameText}

\* C13: the field rules accept a budget string exactly when it parses to a
\* number in the closed range [10, 1000] (10 and 1000 accepted) and reject
\* every value outside it (9.99 as too low, 1000.01 as too high); a string
\* that is not a number is rejected with 'Budget must be a valid number'.
C13_BudgetAcceptedExactlyInRange ==
    crossResult.applied =>
        /\ FieldAccepts("budget") <=> crossInput.budget \in BudgetsInRange
        /\ SubmissionAccepts("budget") <=> crossInput.budget \in BudgetsInRange
        /\ crossInput.budget \in BudgetsNotNumbers =>
              FieldRejects("budget", MsgBudgetNumber)
        /\ crossInput.budget \in {BudgetBelow, BudgetNegative} =>
              (FieldRejects("budget", MsgBudgetMin) /\ SubmissionRejects("budget", MsgBudgetMin))
        /\ crossInput.budget = BudgetAbove =>
              (FieldRejects("budget", MsgBudgetMax) /\ SubmissionRejects("budget", MsgBudgetMax))

\* a draft with budget "10" and a valid name passed both schemas
C13_Witness ==
    /\ crossResult.applied
    /\ crossInput.budget = BudgetTen
    /\ crossResult.field = <<>>
    /\ crossResult.submission.kind = "return"
    /\ crossResult.submission.value.budget = BudgetMin * Scale

\* the form has `message` among the messages of the control `field`
Shown(field, message) ==
    /\ field \in DOMAIN crossResult.shown
    /\ \E i \in DOMAIN crossResult.shown[field] : crossResult.shown[field][i] = message

\* the budget strings below 10 or not a number: "", "abc", "9.99", "-5"
BudgetsNotAtLeastMin == {<<>>, NameText, BudgetBelow, BudgetNegative}

\* the budget strings above 1000 or not a number: "", "abc", "1000.01"
BudgetsNotAtMostMax == {<<>>, NameText, BudgetAbove}

\* C25: field validation is not fail-fast: for one field every failing check
\* is reported together (a name that is both too short and contains an
\* invalid character yields both messages), and the errors of all fields are
\* collected in the same validation pass: each message is shown exactly when
\* its own check fails, whatever the other checks and fields do.
C25_EveryFailingCheckReported ==
    crossResult.applied =>
        /\ Shown("name", MsgNameMin) <=> Len(crossInput.name) < NameMinLen
        /\ Shown("name", MsgNameMax) <=> Len(crossInput.name) > NameMaxLen
        /\ Shown("name", MsgNameChars) <=>
              \E k \in DOMAIN crossInput.name : ~IsLetterDigitOrSpace(crossInput.name[k])
        /\ Shown("budget", MsgBudgetRequired) <=> crossInput.budget = <<>>
        /\ Shown("budget", MsgBudgetNumber) <=> crossInput.budget \in BudgetsNotNumbers
        /\ Shown("budget", MsgBudgetMin) <=> crossInput.budget \in BudgetsNotAtLeastMin
        /\ Shown("budget", MsgBudgetMax) <=> crossInput.budget \in BudgetsNotAtMostMax
        /\ Shown("endDate", MsgEndRequired) <=> crossInput.endDate = EmptyString
        /\ Shown("endDate", MsgInvalidEnd) <=> crossInput.endDate = EmptyString
        /\ "startDate" \notin DOMAIN crossResult.shown

\* the name "a!" has both of its messages, next to those of an empty budget
\* and an empty end date
C25_Witness ==
    /\ crossResult.applied
    /\ crossInput.name = NameShortBad
    /\ crossResult.shown =
          [name    |-> <<MsgNameMin, MsgNameChars>>,
           budget  |-> <<MsgBudgetRequired, MsgBudgetNumber, MsgBudgetMin, MsgBudgetMax>>,
           endDate |-> <<MsgEndRequired, MsgInvalidEnd>>]

(***************************************************************************)
(* Properties of the message store (SpecMessages)                          *)
(***************************************************************************)
InStore(stored, id) == \E i \in DOMAIN stored : stored[i].id = id

\* the message leaves the store in this step
RemovedInStep(message) == InStore(messages, message.id) /\ ~InStore(messages', message.id)

\* what may take the message out of the store: removeMessage(id),
\* clearMessages, and, for a duration above 0, its timer once the duration
\* has elapsed
RemovedBy(message, call, now) ==
    \/ call = [op |-> "removeMessage", id |-> message.id]
    \/ call.op = "clearMessages"
    \/ /\ call = [op |-> "timeout", id |-> message.id]
       /\ message.duration > 0
       /\ now >= message.createdAt + message.duration

\* a stored message with a duration above 0 has its timer pending, due when
\* the duration has elapsed
TimerPending(message) ==
    message.duration > 0 =>
        [id |-> message.id, due |-> message.createdAt + message.duration] \in timers

\* the message just added has the duration it was given, 5000 when none
DurationAsGiven ==
    msgCall.op = "addMessage" =>
        \A i \in DOMAIN messages :
            messages[i].id = msgCall.id =>
                messages[i].duration = IF "duration" \in DOMAIN msgCall.data
                                       THEN msgCall.data.duration
                                       ELSE 5000

\* the message with this id is stored and has a duration above 0
StoredTimed(id) ==
    \E i \in DOMAIN messages : messages[i].id = id /\ messages[i].duration > 0

\* C20: every message added to the message store with a duration greater
\* than 0 (5000 ms when none is given) is removed from the store once its
\* duration has elapsed unless it was removed earlier, while a message with
\* duration 0 (the default of showError) is removed only by removeMessage or
\* clearMessages.
C20_TimedMessagesExpireOthersStay ==
    /\ [](DurationAsGiven /\ \A i \in DOMAIN messages : TimerPending(messages[i]))
    /\ [][\A i \in DOMAIN messages :
             RemovedInStep(messages[i]) => RemovedBy(messages[i], msgCall', clock')]_vars
    /\ \A id \in 1..MaxMessages : StoredTimed(id) ~> ~InStore(messages, id)

\* an error toast with the default duration 0 is still stored after the
\* success toast added before it, with the default 5000, has timed out
C20_Witness ==
    /\ msgCall = [op |-> "timeout", id |-> 1]
    /\ clock = DefaultDuration
    /\ Len(messages) = 1
    /\ messages[1] = [id |-> 2, type |-> "error", duration |-> 0, createdAt |-> 0]
    /\ timers = {}

(***************************************************************************)
(* Properties of the event bus (SpecHistory, SpecBus)                      *)
(***************************************************************************)
EmittedInStep == busClock' = busClock + 1

\* the history is the run of the last events emitted, oldest first
LatestInOrder ==
    \A i \in 1..Len(getHistoryAll) :
        getHistoryAll[i].timestamp = busClock - Len(getHistoryAll) + i

\* C21: the history of the event bus never holds more than 100 events and
\* holds the events last emitted in the order of their emission; an emit
\* makes it one event longer until it holds 100 and then drops the oldest,
\* the new event being the last; and clear leaves it empty.
C21_HistoryKeepsLastHundredInOrder ==
    /\ [](Len(getHistoryAll) <= HistoryKept + 1 /\ LatestInOrder)
    /\ [][EmittedInStep =>
            /\ Len(busHistory') = IF Len(busHistory) < HistoryKept + 1
                                  THEN Len(busHistory) + 1
                                  ELSE HistoryKept + 1
            /\ busHistory'[Len(busHistory')] =
                   [type |-> busCall'.type, payload |-> busCall'.payload,
                    timestamp |-> busClock']]_vars
    /\ [][~EmittedInStep => busHistory' = <<>>]_vars

\* more than 100 events were emitted and the oldest of them are gone
C21_Witness ==
    /\ busClock = MaxEmits
    /\ Len(busHistory) = HistoryKept + 1
    /\ busHistory[1].timestamp = busClock - HistoryKept
    /\ busHistory[1].payload.n = busClock - HistoryKept

CallsOf(listener, calls) ==
    Cardinality({i \in 1..Len(calls) : calls[i].listener = listener})

\* C22: an emit calls once every listener that on registered for the type
\* of the event and that neither its unsubscribe function, off nor clear
\* removed since, whether or not a listener called before it threw; every
\* call carries the type and the payload of the emit; and no other
\* listener is called: none registered for another type only, and none
\* whose unsubscribe function has run.
C22_EmitCallsTheRegisteredListenersOnce ==
    [][EmittedInStep =>
        /\ \A listener \in Listeners :
              CallsOf(listener, busCalls') =
                  IF busHandles[<<busCall'.type, listener>>] = "registered" THEN 1 ELSE 0
        /\ \A i \in 1..Len(busCalls') :
              /\ busCalls'[i].event.type = busCall'.type
              /\ busCalls'[i].event.payload = busCall'.payload
        /\ \A listener \in Listeners :
              busHandles[<<busCall'.type, listener>>] = "ran"
                  => CallsOf(listener, busCalls') = 0]_vars

\* the first listener called threw and the second was called all the same,
\* while a listener of another type and one that unsubscribed were not
C22_Witness ==
    /\ Len(busCalls) = 2
    /\ busCalls[1].threw
    /\ ~busCalls[2].threw
    /\ \E type \in BusTypes \ {busCall.type} :
          /\ busHandles[<<type, "recording">>] = "registered"
          /\ busHandles[<<type, "throwing">>] = "ran"

(***************************************************************************)
(* Properties of the stores under overlapping service calls (SpecStores)   *)
(***************************************************************************)
\* the step in which the service call of a fetchCharacters settles
FetchCharactersSettled ==
    Len(inFlight') < Len(inFlight) /\ settled'.kind = "fetchCharacters"

\* C23: when the service call of fetchCharacters fails, the characters
\* store ends with isLoading false, the message of the failure as error and
\* the characters it had; when it succeeds, the store ends with isLoading
\* false, error null and the fetched results as items.
C23_FetchCharactersEndsLoadedOrFailed ==
    [][FetchCharactersSettled =>
        IF settled'.outcome.kind = "throw"
        THEN /\ ~charactersStore'.isLoading
             /\ settled'.outcome.error.isError
                    => charactersStore'.error = settled'.outcome.error.message
             /\ charactersStore'.characters = charactersStore.characters
        ELSE /\ ~charactersStore'.isLoading
             /\ charactersStore'.error = Null
             /\ charactersStore'.characters.items
                    = settled'.outcome.value.characters.results]_vars

\* the loading flag that an action of a store raises
LoadingFlag(kind) ==
    CASE kind \in {"fetchCharacters", "fetchCharacter"} -> charactersStore.isLoading
      [] kind = "fetchHealth"        -> internalStore.healthLoading
      [] kind = "fetchInternalData"  -> internalStore.dataLoading
      [] OTHER                       -> internalStore.createLoading

\* C30: while a service call of a store is in flight, the loading flag of
\* its kind is true, whatever other calls have begun or settled meanwhile.
C30_LoadingWhileInFlight ==
    \A i \in 1..Len(inFlight) : LoadingFlag(inFlight[i].kind)

====
